---- MODULE Spec2Model ----
(***************************************************************************)
(* Ingat: coordination of the processes that share one embedded sled       *)
(* store.  Front ends (desktop shell, stdio bridge, SSE bridge) and the    *)
(* HTTP owner service (mcp_service) all run build_environment, which       *)
(* probes GET /health on the configured host/port and picks the Remote     *)
(* Proxy store or opens the sled store directly.  ServiceManager.start()   *)
(* spawns a detached mcp_service; PowerManager's monitor restarts it.      *)
(***************************************************************************)
EXTENDS Integers, FiniteSets, Sequences, TLC

(***************************************************************************)
(* Bounds of the model.                                                    *)
(***************************************************************************)
\* number of mcp_service process slots that may be alive at the same time
MaxSvc == 2
\* ServiceManager.stop() calls that are counted
MaxStops == 1

(***************************************************************************)
(* Processes.                                                              *)
(***************************************************************************)
Desktop == "desktop"
Stdio == "stdio"
Sse == "sse"
Clients == {Desktop, Stdio, Sse}
\* the mcp_service processes, in the order their slots are filled
SvcNames == <<"svc1", "svc2", "svc3", "svc4">>
Svc == {SvcNames[i] : i \in 1..MaxSvc}
SvcIndex(s) == CHOOSE i \in 1..MaxSvc : SvcNames[i] = s
Proc == Clients \cup Svc

\* the contexts from which ServiceManager.start() is called
TryRun == "try_run"
Cmd == "cmd"
Mon == "mon"
Res == "resume"
Callers == {TryRun, Cmd, Mon, Res}

Backends == {"simple", "fastembed"}

\* the name a request may give as model_override
CustomModel == "custom/hash"

\* EmbeddingBackend values: a backend with its default model, or with the
\* model name replaced by the override
Configs == Backends \cup {"simple+custom", "fastembed+custom"}

(***************************************************************************)
(* The health endpoint and its two probes.                                 *)
(* A response is the HTTP status (0: no connection / timeout) and what     *)
(* the body holds: whether it is JSON, its "status" string ("" when the    *)
(* field is absent) and whether the "service" field is present.            *)
(***************************************************************************)
NoConnection == [status |-> 0, json |-> FALSE, state |-> "", service |-> FALSE]

\* mcp_service's GET /health handler
health_check == [status |-> 200, json |-> TRUE, state |-> "healthy", service |-> TRUE]

\* ureq's call(): Ok for a status below 400, Err for a transport failure or
\* a status of 400 and above
UreqOk(resp) == resp.status # 0 /\ resp.status < 400

\* serde's parse of the body into HealthResponse {status: String, service: String}
ParsesAsHealthResponse(resp) == resp.json /\ resp.state # "" /\ resp.service

\* ServiceManager::is_running
is_running(resp) == UreqOk(resp) /\ resp.status = 200

\* infrastructure::http_client::check_service_availability
check_service_availability(resp) ==
    /\ UreqOk(resp)
    /\ resp.status = 200
    /\ ParsesAsHealthResponse(resp)
    /\ resp.state = "healthy"

(***************************************************************************)
(* State.                                                                  *)
(***************************************************************************)
VARIABLES
    pc,         \* pc[p]: where process p is in its entry point
    mode,       \* mode[p]: branch build_environment took ("none","proxy","owner")
    engine,     \* engine[p]: p holds the sled Db open (and so its file lock)
    store,      \* store[p]: AppHandles.store ("none","sled","remote")
    cell,       \* cell[p]: the store of the ContextService in p's service cell
    config,     \* the embedding backend in the config file (and, while the
                \* desktop runs, of the ContextService in its cell)
    active,     \* the embedding backend in the desktop's ConfigManager.state
    binary,     \* find_binary() locates the mcp_service binary
    spc,        \* spc[c]: where caller c is inside ServiceManager.start()
    sres,       \* sres[c]: what c's start() returned, until c has used it
    spawnedBy,  \* spawnedBy[s]: who launched the running service s
    stops,      \* stop() calls made on the desktop's ServiceManager
    endpoint,   \* probe model: what GET /health answers
    probed,     \* probe model: the two probes have been applied to a response
    isr,        \* probe model: what is_running returned for it
    csa,        \* probe model: what check_service_availability returned for it
    desired,    \* PowerManager.desired_state
    stateFile,  \* what service_state.json holds
    writable,   \* std::fs::write of service_state.json succeeds
    saving,     \* saving[t]: the state handler thread t has stored in memory
                \* and has yet to hand to save_state ("none": no call running)
    mpc,        \* where start_monitoring / the health loop thread is
    mseen,      \* the desired state that thread last read (its local "state")
    rpc,        \* where the Resume handler is
    rseen,      \* the desired state the Resume handler read
    contexts,   \* the records in the sled store's "contexts" tree
    issued,     \* the record ids Uuid::new_v4 has handed out
    svcBackend, \* the embedding backend the owner service was built with
    flight,     \* the operation in flight at the desktop, with its handle
    out,        \* what the last completed operation did and returned
    stdin,      \* stdio bridge: the lines its client has yet to send
    stdout,     \* stdio bridge: the responses written to its client
    lpc,        \* stdio bridge: where run_mcp_stdio_server's loop is
    line,       \* stdio bridge: the line read last
    taken,      \* stdio bridge: the non-blank lines read so far
    pipe        \* stdio bridge: its client still reads stdout

coordVars == <<pc, mode, engine, store, cell, config, active, binary, spc, sres, spawnedBy, stops>>

probeVars == <<endpoint, probed, isr, csa>>

monVars == <<desired, stateFile, writable, saving, saving, mpc, mseen, rpc, rseen>>

dataVars == <<contexts, issued, svcBackend, flight, out>>

stdioVars == <<stdin, stdout, lpc, line, taken, pipe>>

vars == <<coordVars, probeVars, monVars, dataVars, stdioVars>>

\* the process that owns the ServiceManager a caller uses
Monitor == "monitor"
Operator == "operator"
HostOf(c) == IF c \in {Mon, Res} THEN Monitor ELSE Desktop

\* what GET /health on the configured host/port answers now
Health ==
    IF \E s \in Svc : pc[s] = "running" THEN health_check ELSE NoConnection

\* the processes holding the sled file lock
Holders == {p \in Proc : engine[p]}

TypeOK ==
    /\ pc \in [Proc -> {"off", "try_probe", "starting", "build", "open", "bind", "running"}]
    /\ mode \in [Proc -> {"none", "proxy", "owner"}]
    /\ engine \in [Proc -> BOOLEAN]
    /\ store \in [Proc -> {"none", "sled", "remote"}]
    /\ cell \in [Proc -> {"none", "sled", "remote"}]
    /\ config \in Configs
    /\ active \in Configs
    /\ binary \in BOOLEAN
    /\ spc \in [Callers -> {"idle", "check", "find", "settle", "done"}]
    /\ sres \in [Callers -> {"none", "ok_noop", "ok_started", "err_nobinary", "err_notup"}]
    /\ spawnedBy \in [Svc -> {"none", Desktop, Monitor, Operator}]
    /\ stops \in 0..MaxStops

CoordInit ==
    /\ pc = [p \in Proc |-> "off"]
    /\ mode = [p \in Proc |-> "none"]
    /\ engine = [p \in Proc |-> FALSE]
    /\ store = [p \in Proc |-> "none"]
    /\ cell = [p \in Proc |-> "none"]
    /\ config = "simple"
    /\ active = config
    /\ binary \in BOOLEAN
    /\ spc = [c \in Callers |-> "idle"]
    /\ sres = [c \in Callers |-> "none"]
    /\ spawnedBy = [s \in Svc |-> "none"]
    /\ stops = 0

(***************************************************************************)
(* Process start and end.                                                  *)
(***************************************************************************)
\* the lowest free mcp_service slot: the process a spawn creates
FreeSlot(s) == pc[s] = "off" /\ \A t \in Svc : SvcIndex(t) < SvcIndex(s) => pc[t] # "off"

\* the start() calls that run on threads of process p
CallersOf(p) == IF p = Desktop THEN {TryRun, Cmd} ELSE {}

\* the process ends (exit, panic, kill): its Db handle, and so the sled
\* file lock, its listener and its threads go with it
Die(p) ==
    /\ pc' = [pc EXCEPT ![p] = "off"]
    /\ mode' = [mode EXCEPT ![p] = "none"]
    /\ engine' = [engine EXCEPT ![p] = FALSE]
    /\ store' = [store EXCEPT ![p] = "none"]
    /\ cell' = [cell EXCEPT ![p] = "none"]
    /\ stops' = IF p = Desktop THEN 0 ELSE stops
    /\ spc' = [c \in Callers |-> IF c \in CallersOf(p) THEN "idle" ELSE spc[c]]
    /\ sres' = [c \in Callers |-> IF c \in CallersOf(p) THEN "none" ELSE sres[c]]
    /\ spawnedBy' = [s \in Svc |-> IF s = p THEN "none" ELSE spawnedBy[s]]

\* the user or an IDE launches a front end
Launch(p) ==
    /\ p \in Clients
    /\ pc[p] = "off"
    /\ pc' = [pc EXCEPT ![p] = IF p = Desktop THEN "try_probe" ELSE "build"]
    /\ UNCHANGED <<mode, engine, store, cell, config, active, binary, spc, sres, spawnedBy, stops>>
    /\ UNCHANGED <<probeVars, monVars, dataVars, stdioVars>>

\* a front end is closed
Exit(p) ==
    /\ p \in Clients
    /\ pc[p] = "running"
    /\ Die(p)
    /\ UNCHANGED <<config, active, binary>>
    /\ UNCHANGED <<probeVars, monVars, dataVars, stdioVars>>

\* the operating system kills an mcp_service (crash, sleep/resume, kill)
Crash(s) ==
    /\ s \in Svc
    /\ pc[s] # "off"
    /\ Die(s)
    /\ UNCHANGED <<config, active, binary>>
    /\ UNCHANGED <<probeVars, monVars, dataVars, stdioVars>>

\* an operator starts mcp_service by hand
OperatorStart(s) ==
    /\ s \in Svc
    /\ FreeSlot(s)
    /\ pc' = [pc EXCEPT ![s] = "build"]
    /\ spawnedBy' = [spawnedBy EXCEPT ![s] = Operator]
    /\ UNCHANGED <<mode, engine, store, cell, config, active, binary, spc, sres, stops>>
    /\ UNCHANGED <<probeVars, monVars, dataVars, stdioVars>>

\* the mcp_service binary is installed or removed
SetBinary(b) ==
    /\ binary # b
    /\ binary' = b
    /\ UNCHANGED <<pc, mode, engine, store, cell, config, active, spc, sres, spawnedBy, stops>>
    /\ UNCHANGED <<probeVars, monVars, dataVars, stdioVars>>

(***************************************************************************)
(* build_environment, run by every front end and by mcp_service.           *)
(***************************************************************************)
\* where a process goes once build_environment has returned Ok
AfterBuild(p) == IF p \in Svc THEN "bind" ELSE "running"

\* variant: the branches of build_environment exchanged
SelectInverted(resp) == IF check_service_availability(resp) THEN "owner" ELSE "proxy"

\* the branch of build_environment
SelectMode(resp) == IF check_service_availability(resp) THEN "proxy" ELSE "owner"

\* build_environment's probe; the proxy branch is build_environment_remote
BuildProbe(p) ==
    /\ pc[p] = "build"
    /\ LET m == SelectMode(Health) IN
        /\ mode' = [mode EXCEPT ![p] = m]
        /\ IF m = "proxy"
           THEN /\ store' = [store EXCEPT ![p] = "remote"]
                /\ cell' = [cell EXCEPT ![p] = "remote"]
                /\ pc' = [pc EXCEPT ![p] = AfterBuild(p)]
           ELSE /\ pc' = [pc EXCEPT ![p] = "open"]
                /\ UNCHANGED <<store, cell>>
    /\ active' = IF p = Desktop THEN config ELSE active
    /\ UNCHANGED <<engine, config, binary, spc, sres, spawnedBy, stops>>
    /\ UNCHANGED <<probeVars, monVars, dataVars, stdioVars>>

\* sled's Config::open takes an exclusive lock on the database file and
\* fails when another process holds it
SledOpenSucceeds == Holders = {}

\* build_environment_local: SledVectorStore::open, then the service
BuildOpen(p) ==
    /\ pc[p] = "open"
    /\ IF SledOpenSucceeds
       THEN /\ engine' = [engine EXCEPT ![p] = TRUE]
            /\ store' = [store EXCEPT ![p] = "sled"]
            /\ cell' = [cell EXCEPT ![p] = "sled"]
            /\ pc' = [pc EXCEPT ![p] = AfterBuild(p)]
            /\ UNCHANGED <<mode, spc, sres, spawnedBy, stops>>
       ELSE Die(p)
    /\ UNCHANGED <<config, active, binary>>
    /\ UNCHANGED <<probeVars, monVars, dataVars, stdioVars>>

\* mcp_service binds the configured host/port and serves; a taken port
\* panics the process
Bind(s) ==
    /\ s \in Svc
    /\ pc[s] = "bind"
    /\ IF \E t \in Svc : pc[t] = "running"
       THEN Die(s)
       ELSE /\ pc' = [pc EXCEPT ![s] = "running"]
            /\ UNCHANGED <<mode, engine, store, cell, spc, sres, spawnedBy, stops>>
    /\ UNCHANGED <<config, active, binary>>
    /\ UNCHANGED <<probeVars, monVars, dataVars, stdioVars>>

(***************************************************************************)
(* ServiceManager.start(), stop() for a caller c.                          *)
(***************************************************************************)
\* start() returns res to its caller
Return(c, res) ==
    /\ spc' = [spc EXCEPT ![c] = "done"]
    /\ sres' = [sres EXCEPT ![c] = res]

\* variant: start() without its is_running() check
StartCheckSkipsProbe(c) ==
    /\ spc[c] = "check"
    /\ spc' = [spc EXCEPT ![c] = "find"]
    /\ UNCHANGED <<pc, mode, engine, store, cell, config, active, binary, sres, spawnedBy, stops>>
    /\ UNCHANGED <<probeVars, monVars, dataVars, stdioVars>>

\* start(): "if self.is_running() { return Ok(()) }"
StartCheck(c) ==
    /\ spc[c] = "check"
    /\ IF is_running(Health)
       THEN Return(c, "ok_noop")
       ELSE /\ spc' = [spc EXCEPT ![c] = "find"]
            /\ UNCHANGED sres
    /\ UNCHANGED <<pc, mode, engine, store, cell, config, active, binary, spawnedBy, stops>>
    /\ UNCHANGED <<probeVars, monVars, dataVars, stdioVars>>

\* find_binary(): next to the executable, target/release, target/debug, PATH
FindBinaryOk == binary

\* start(): find_binary()?, then Command::spawn() of a detached mcp_service
StartSpawn(c) ==
    /\ spc[c] = "find"
    /\ IF FindBinaryOk
       THEN /\ \E s \in Svc :
                /\ FreeSlot(s)
                /\ pc' = [pc EXCEPT ![s] = "build"]
                /\ spawnedBy' = [spawnedBy EXCEPT ![s] = HostOf(c)]
            /\ spc' = [spc EXCEPT ![c] = "settle"]
            /\ UNCHANGED sres
       ELSE /\ Return(c, "err_nobinary")
            /\ UNCHANGED <<pc, spawnedBy>>
    /\ UNCHANGED <<mode, engine, store, cell, config, active, binary, stops>>
    /\ UNCHANGED <<probeVars, monVars, dataVars, stdioVars>>

\* start(): after the 1500 ms sleep, "if !self.is_running() { return Err }"
StartVerify(c) ==
    /\ spc[c] = "settle"
    /\ Return(c, IF is_running(Health) THEN "ok_started" ELSE "err_notup")
    /\ UNCHANGED <<pc, mode, engine, store, cell, config, active, binary, spawnedBy, stops>>
    /\ UNCHANGED <<probeVars, monVars, dataVars, stdioVars>>

\* variant: a stop() that kills the mcp_service this manager spawned
StopKillsChild(c) ==
    /\ stops < MaxStops
    /\ stops' = stops + 1
    /\ pc' = [p \in Proc |-> IF p \in Svc /\ spawnedBy[p] = HostOf(c) THEN "off" ELSE pc[p]]
    /\ mode' = [p \in Proc |-> IF p \in Svc /\ spawnedBy[p] = HostOf(c) THEN "none" ELSE mode[p]]
    /\ engine' = [p \in Proc |-> IF p \in Svc /\ spawnedBy[p] = HostOf(c) THEN FALSE ELSE engine[p]]
    /\ UNCHANGED <<store, cell, config, active, binary, spc, sres, spawnedBy>>

\* stop(): only a debug line; the Child handle was dropped in start()
Stop(c) ==
    /\ stops < MaxStops
    /\ stops' = stops + 1
    /\ UNCHANGED <<pc, mode, engine, store, cell, config, active, binary, spc, sres, spawnedBy>>

(***************************************************************************)
(* The desktop shell: try_run and its commands.                            *)
(***************************************************************************)
\* try_run: "if !check_service_availability(&host, port) { service_manager.start() }"
TryRunProbe ==
    /\ pc[Desktop] = "try_probe"
    /\ IF check_service_availability(Health)
       THEN /\ pc' = [pc EXCEPT ![Desktop] = "build"]
            /\ UNCHANGED spc
       ELSE /\ pc' = [pc EXCEPT ![Desktop] = "starting"]
            /\ spc' = [spc EXCEPT ![TryRun] = "check"]
    /\ UNCHANGED <<mode, engine, store, cell, config, active, binary, sres, spawnedBy, stops>>
    /\ UNCHANGED <<probeVars, monVars, dataVars, stdioVars>>

\* variant: a try_run that gives up when start() returns Err
TryRunAbortsOnError ==
    /\ pc[Desktop] = "starting"
    /\ spc[TryRun] = "done"
    /\ spc' = [spc EXCEPT ![TryRun] = "idle"]
    /\ sres' = [sres EXCEPT ![TryRun] = "none"]
    /\ pc' = [pc EXCEPT ![Desktop] = IF sres[TryRun] \in {"ok_noop", "ok_started"} THEN "build" ELSE "off"]
    /\ UNCHANGED <<mode, engine, store, cell, config, active, binary, spawnedBy, stops>>
    /\ UNCHANGED <<probeVars, monVars, dataVars, stdioVars>>

\* try_run: start() has returned; an Err is only printed ("Continuing in
\* local database mode"), then build_environment()
TryRunContinue ==
    /\ pc[Desktop] = "starting"
    /\ spc[TryRun] = "done"
    /\ spc' = [spc EXCEPT ![TryRun] = "idle"]
    /\ sres' = [sres EXCEPT ![TryRun] = "none"]
    /\ pc' = [pc EXCEPT ![Desktop] = "build"]
    /\ UNCHANGED <<mode, engine, store, cell, config, active, binary, spawnedBy, stops>>
    /\ UNCHANGED <<probeVars, monVars, dataVars, stdioVars>>

\* the start_service command is invoked: manager.start()
start_service ==
    /\ pc[Desktop] = "running"
    /\ spc[Cmd] = "idle"
    /\ spc' = [spc EXCEPT ![Cmd] = "check"]
    /\ UNCHANGED <<pc, mode, engine, store, cell, config, active, binary, sres, spawnedBy, stops>>
    /\ UNCHANGED <<probeVars, monVars, dataVars, stdioVars>>

\* the start_service command hands start()'s result to the shell
start_service_return ==
    /\ spc[Cmd] = "done"
    /\ spc' = [spc EXCEPT ![Cmd] = "idle"]
    /\ sres' = [sres EXCEPT ![Cmd] = "none"]
    /\ UNCHANGED <<pc, mode, engine, store, cell, config, active, binary, spawnedBy, stops>>
    /\ UNCHANGED <<probeVars, monVars, dataVars, stdioVars>>

\* the stop_service command
stop_service ==
    /\ pc[Desktop] = "running"
    /\ Stop(Cmd)
    /\ UNCHANGED <<probeVars, monVars, dataVars, stdioVars>>

\* variant: a set_embedding_backend that runs the selection again
SetBackendReprobes(b) ==
    /\ pc[Desktop] = "running"
    /\ b # config
    /\ config' = b
    /\ active' = b
    /\ LET k == IF check_service_availability(Health) THEN "remote" ELSE "sled" IN
        /\ cell' = [cell EXCEPT ![Desktop] = k]
        /\ store' = [store EXCEPT ![Desktop] = k]
    /\ UNCHANGED <<pc, mode, engine, binary, spc, sres, spawnedBy, stops>>
    /\ UNCHANGED <<probeVars, monVars, dataVars, stdioVars>>

\* the set_embedding_backend command: a new ContextService over the same
\* store handle replaces the one in the cell; the backend is persisted
set_embedding_backend(b) ==
    /\ pc[Desktop] = "running"
    /\ b # config
    /\ config' = b
    /\ active' = b
    /\ cell' = [cell EXCEPT ![Desktop] = store[Desktop]]
    /\ UNCHANGED <<pc, mode, engine, store, binary, spc, sres, spawnedBy, stops>>
    /\ UNCHANGED <<probeVars, monVars, dataVars, stdioVars>>

(***************************************************************************)
(* The coordination model: front ends, owner services, ServiceManager.     *)
(***************************************************************************)
StartStep(c) == StartCheck(c) \/ StartSpawn(c) \/ StartVerify(c)

CoordNext ==
    \/ \E p \in Clients : Launch(p)
    \/ \E p \in Clients : Exit(p)
    \/ \E s \in Svc : Crash(s)
    \/ \E s \in Svc : OperatorStart(s)
    \/ \E b \in BOOLEAN : SetBinary(b)
    \/ \E p \in Proc : BuildProbe(p)
    \/ \E p \in Proc : BuildOpen(p)
    \/ \E s \in Svc : Bind(s)
    \/ \E c \in {TryRun, Cmd} : StartStep(c)
    \/ TryRunProbe
    \/ TryRunContinue
    \/ start_service
    \/ start_service_return
    \/ stop_service
    \/ \E b \in Backends : set_embedding_backend(b)

(***************************************************************************)
(* The probe model: the two health probes applied to whatever answers on   *)
(* the configured host/port.                                               *)
(***************************************************************************)
Statuses == {200, 204, 404, 500, 503}

Bodies ==
    {[json |-> FALSE, state |-> "", service |-> FALSE]}
    \cup [json : {TRUE}, state : {"", "healthy", "degraded"}, service : BOOLEAN]

Responses ==
    {NoConnection}
    \cup {[status |-> s, json |-> b.json, state |-> b.state, service |-> b.service] :
            s \in Statuses, b \in Bodies}

ProbeQuiet ==
    /\ endpoint = NoConnection
    /\ probed = FALSE
    /\ isr = FALSE
    /\ csa = FALSE

ProbeInit ==
    /\ endpoint \in Responses
    /\ probed = FALSE
    /\ isr = FALSE
    /\ csa = FALSE

\* what listens on the port changes its answer
Answer(r) ==
    /\ r # endpoint
    /\ endpoint' = r
    /\ probed' = FALSE
    /\ UNCHANGED <<isr, csa>>
    /\ UNCHANGED <<coordVars, monVars, dataVars, stdioVars>>

\* is_running() and check_service_availability() each GET /health
Probe ==
    /\ ~probed
    /\ probed' = TRUE
    /\ isr' = is_running(endpoint)
    /\ csa' = check_service_availability(endpoint)
    /\ UNCHANGED endpoint
    /\ UNCHANGED <<coordVars, monVars, dataVars, stdioVars>>

ProbeNext ==
    \/ \E r \in Responses : Answer(r)
    \/ Probe

(***************************************************************************)
(* PowerManager: the desired state, its file, start_monitoring and the     *)
(* health loop, the power event handlers.                                  *)
(***************************************************************************)
States == {"Running", "Stopped", "Unknown"}

\* threads that may run a handler of the PowerManager at the same time
Threads == {"t1", "t2"}

\* what service_state.json may hold when a PowerManager is constructed: no
\* file, text that is not JSON, JSON without a string "state" field, or the
\* string of that field
FileKinds == {"absent", "corrupt", "nostate", "paused", "unknown", "running", "stopped"}

TypeOKMon ==
    /\ desired \in States
    /\ stateFile \in FileKinds
    /\ writable \in BOOLEAN
    /\ saving \in [Threads -> States \cup {"none"}]
    /\ mpc \in {"none", "new", "sm_probe", "sm_start", "loop_sleep", "loop_probe",
                "loop_backoff", "loop_start"}
    /\ mseen \in States \cup {"none"}
    /\ rpc \in {"idle", "wait", "start"}
    /\ rseen \in States \cup {"none"}

\* variant: a load_state that takes an unreadable file for "stopped"
LoadStateDefaultsStopped(f) ==
    CASE f = "running" -> "Running"
      [] OTHER -> "Stopped"

\* load_state(): a missing or unparsable file, or one without a state
\* string, leaves the Unknown of new(); any other string than "running" and
\* "stopped" sets Unknown
load_state(f) ==
    CASE f = "running" -> "Running"
      [] f = "stopped" -> "Stopped"
      [] OTHER -> "Unknown"

\* the string save_state() writes
state_str(s) ==
    CASE s = "Running" -> "running"
      [] s = "Stopped" -> "stopped"
      [] OTHER -> "unknown"

\* a PowerManager that is never constructed
MonQuiet ==
    /\ stateFile = "absent"
    /\ writable = TRUE
    /\ saving = [t \in Threads |-> "none"]
    /\ desired = "Unknown"
    /\ mpc = "none"
    /\ mseen = "none"
    /\ rpc = "idle"
    /\ rseen = "none"

\* PowerManager::new
MonInit ==
    /\ stateFile \in FileKinds
    /\ writable = TRUE
    /\ saving = [t \in Threads |-> "none"]
    /\ desired = load_state(stateFile)
    /\ mpc = "new"
    /\ mseen = "none"
    /\ rpc = "idle"
    /\ rseen = "none"

coordRest == <<pc, mode, engine, store, cell, config, active, binary, spawnedBy, stops>>

\* a caller starts a start() call
CallStart(c) ==
    /\ spc[c] = "idle"
    /\ spc' = [spc EXCEPT ![c] = "check"]
    /\ UNCHANGED sres

\* a caller takes the result of its start() call (and logs it)
TakeResult(c) ==
    /\ spc[c] = "done"
    /\ spc' = [spc EXCEPT ![c] = "idle"]
    /\ sres' = [sres EXCEPT ![c] = "none"]

\* start_monitoring: "let state = *self.desired_state.lock().unwrap()"
StartMonitoringRead ==
    /\ mpc = "new"
    /\ mseen' = desired
    /\ mpc' = IF desired = "Running" THEN "sm_probe" ELSE "loop_sleep"
    /\ UNCHANGED <<desired, stateFile, writable, saving, rpc, rseen, spc, sres, coordRest>>
    /\ UNCHANGED <<probeVars, dataVars, stdioVars>>

\* start_monitoring: "if !self.service_manager.is_running() { start() }"
StartMonitoringProbe ==
    /\ mpc = "sm_probe"
    /\ IF is_running(Health)
       THEN /\ mpc' = "loop_sleep"
            /\ UNCHANGED <<spc, sres>>
       ELSE /\ mpc' = "sm_start"
            /\ CallStart(Mon)
    /\ UNCHANGED <<desired, stateFile, writable, saving, mseen, rpc, rseen, coordRest>>
    /\ UNCHANGED <<probeVars, dataVars, stdioVars>>

\* start_monitoring: start() returned (an Err is logged); the health loop
\* thread is spawned
StartMonitoringSpawn ==
    /\ mpc = "sm_start"
    /\ TakeResult(Mon)
    /\ mpc' = "loop_sleep"
    /\ UNCHANGED <<desired, stateFile, writable, saving, mseen, rpc, rseen, coordRest>>
    /\ UNCHANGED <<probeVars, dataVars, stdioVars>>

\* variant: a health loop that does not look at the desired state
LoopReadIgnoresState ==
    /\ mpc = "loop_sleep"
    /\ mseen' = desired
    /\ mpc' = "loop_probe"
    /\ UNCHANGED <<desired, stateFile, writable, saving, rpc, rseen, spc, sres, coordRest>>
    /\ UNCHANGED <<probeVars, dataVars, stdioVars>>

\* monitor_service_health: after the 10 s sleep,
\* "let state = *desired_state.lock().unwrap(); if state == Running"
LoopRead ==
    /\ mpc = "loop_sleep"
    /\ mseen' = desired
    /\ mpc' = IF desired = "Running" THEN "loop_probe" ELSE "loop_sleep"
    /\ UNCHANGED <<desired, stateFile, writable, saving, rpc, rseen, spc, sres, coordRest>>
    /\ UNCHANGED <<probeVars, dataVars, stdioVars>>

\* monitor_service_health: "if !service_manager.is_running()"
LoopProbe ==
    /\ mpc = "loop_probe"
    /\ mpc' = IF is_running(Health) THEN "loop_sleep" ELSE "loop_backoff"
    /\ UNCHANGED <<desired, stateFile, writable, saving, mseen, rpc, rseen, spc, sres, coordRest>>
    /\ UNCHANGED <<probeVars, dataVars, stdioVars>>

\* monitor_service_health: after the 2 s sleep, service_manager.start()
LoopStart ==
    /\ mpc = "loop_backoff"
    /\ CallStart(Mon)
    /\ mpc' = "loop_start"
    /\ UNCHANGED <<desired, stateFile, writable, saving, mseen, rpc, rseen, coordRest>>
    /\ UNCHANGED <<probeVars, dataVars, stdioVars>>

\* variant: a health loop that returns when start() fails
LoopEndsOnError ==
    /\ mpc = "loop_start"
    /\ mpc' = IF sres[Mon] \in {"ok_noop", "ok_started"} THEN "loop_sleep" ELSE "ended"
    /\ TakeResult(Mon)
    /\ UNCHANGED <<desired, stateFile, writable, saving, mseen, rpc, rseen, coordRest>>
    /\ UNCHANGED <<probeVars, dataVars, stdioVars>>

\* monitor_service_health: start() returned; Ok and Err are both only
\* logged and the loop goes round
LoopAfterStart ==
    /\ mpc = "loop_start"
    /\ TakeResult(Mon)
    /\ mpc' = "loop_sleep"
    /\ UNCHANGED <<desired, stateFile, writable, saving, mseen, rpc, rseen, coordRest>>
    /\ UNCHANGED <<probeVars, dataVars, stdioVars>>

\* "*self.desired_state.lock().unwrap() = state; self.save_state(state)"
\* of a handler that no other handler overlaps: the in-memory value, then
\* the file; a failed write is only logged
SetDesired(s) ==
    /\ desired' = s
    /\ stateFile' = IF writable THEN state_str(s) ELSE stateFile
    /\ UNCHANGED <<writable, saving>>

\* a PowerManager exists
Constructed == mpc # "none"

\* PowerManager::new: desired_state Unknown, then load_state()
PowerManagerNew ==
    /\ mpc = "none"
    /\ mpc' = "new"
    /\ desired' = load_state(stateFile)
    /\ UNCHANGED <<stateFile, writable, saving, mseen, rpc, rseen>>
    /\ UNCHANGED <<coordVars, probeVars, dataVars, stdioVars>>

\* the process hosting the PowerManager exits before start_monitoring
HostExit ==
    /\ mpc = "new"
    /\ mpc' = "none"
    /\ desired' = "Unknown"
    /\ UNCHANGED <<stateFile, writable, saving, mseen, rpc, rseen>>
    /\ UNCHANGED <<coordVars, probeVars, dataVars, stdioVars>>

\* the data directory becomes read-only or writable again
SetWritable(b) ==
    /\ writable # b
    /\ writable' = b
    /\ UNCHANGED <<desired, stateFile, saving, mpc, mseen, rpc, rseen>>
    /\ UNCHANGED <<coordVars, probeVars, dataVars, stdioVars>>

\* variant: an on_suspend that always records Running
SuspendAlwaysRunning ==
    /\ Constructed
    /\ SetDesired("Running")
    /\ UNCHANGED <<mpc, mseen, rpc, rseen, spc, sres, coordRest>>
    /\ UNCHANGED <<probeVars, dataVars, stdioVars>>

\* handle_power_event(Suspend): on_suspend
on_suspend ==
    /\ Constructed
    /\ SetDesired(IF is_running(Health) THEN "Running" ELSE "Stopped")
    /\ UNCHANGED <<mpc, mseen, rpc, rseen, spc, sres, coordRest>>
    /\ UNCHANGED <<probeVars, dataVars, stdioVars>>

mark_service_running ==
    /\ Constructed
    /\ SetDesired("Running")
    /\ UNCHANGED <<mpc, mseen, rpc, rseen, spc, sres, coordRest>>
    /\ UNCHANGED <<probeVars, dataVars, stdioVars>>

mark_service_stopped ==
    /\ Constructed
    /\ SetDesired("Stopped")
    /\ UNCHANGED <<mpc, mseen, rpc, rseen, spc, sres, coordRest>>
    /\ UNCHANGED <<probeVars, dataVars, stdioVars>>

\* the handlers step by step, as several threads run them: the lock on
\* desired_state is released at the end of the assignment, before save_state
\* on_suspend: is_running(), then "*self.desired_state.lock().unwrap() = state"
OnSuspendStore(t) ==
    /\ Constructed
    /\ saving[t] = "none"
    /\ LET state == IF is_running(Health) THEN "Running" ELSE "Stopped" IN
        /\ desired' = state
        /\ saving' = [saving EXCEPT ![t] = state]
    /\ UNCHANGED <<stateFile, writable, mpc, mseen, rpc, rseen>>
    /\ UNCHANGED <<coordVars, probeVars, dataVars, stdioVars>>

\* mark_service_running: "*self.desired_state.lock().unwrap() = Running"
MarkRunningStore(t) ==
    /\ Constructed
    /\ saving[t] = "none"
    /\ desired' = "Running"
    /\ saving' = [saving EXCEPT ![t] = "Running"]
    /\ UNCHANGED <<stateFile, writable, mpc, mseen, rpc, rseen>>
    /\ UNCHANGED <<coordVars, probeVars, dataVars, stdioVars>>

\* mark_service_stopped: "*self.desired_state.lock().unwrap() = Stopped"
MarkStoppedStore(t) ==
    /\ Constructed
    /\ saving[t] = "none"
    /\ desired' = "Stopped"
    /\ saving' = [saving EXCEPT ![t] = "Stopped"]
    /\ UNCHANGED <<stateFile, writable, mpc, mseen, rpc, rseen>>
    /\ UNCHANGED <<coordVars, probeVars, dataVars, stdioVars>>

\* save_state(state), the last statement of the three handlers: fs::write
\* of the file, a failure only logged; the handler returns
save_state(t) ==
    /\ saving[t] # "none"
    /\ stateFile' = IF writable THEN state_str(saving[t]) ELSE stateFile
    /\ saving' = [saving EXCEPT ![t] = "none"]
    /\ UNCHANGED <<desired, writable, mpc, mseen, rpc, rseen>>
    /\ UNCHANGED <<coordVars, probeVars, dataVars, stdioVars>>

\* handle_power_event(Resume): on_resume reads the desired state
ResumeRead ==
    /\ rpc = "idle"
    /\ rseen' = desired
    /\ rpc' = IF desired = "Running" THEN "wait" ELSE "idle"
    /\ UNCHANGED <<desired, stateFile, writable, saving, mpc, mseen, spc, sres, coordRest>>
    /\ UNCHANGED <<probeVars, dataVars, stdioVars>>

\* variant: an on_resume that calls start() without looking
ResumeProbeAlwaysStarts ==
    /\ rpc = "wait"
    /\ rpc' = "start"
    /\ CallStart(Res)
    /\ UNCHANGED <<desired, stateFile, writable, saving, mpc, mseen, rseen, coordRest>>
    /\ UNCHANGED <<probeVars, dataVars, stdioVars>>

\* on_resume: after the 500 ms sleep, "if !is_running() { start() }"
ResumeProbe ==
    /\ rpc = "wait"
    /\ IF is_running(Health)
       THEN /\ rpc' = "idle"
            /\ UNCHANGED <<spc, sres>>
       ELSE /\ rpc' = "start"
            /\ CallStart(Res)
    /\ UNCHANGED <<desired, stateFile, writable, saving, mpc, mseen, rseen, coordRest>>
    /\ UNCHANGED <<probeVars, dataVars, stdioVars>>

\* variant: an on_resume that records Running once start() has returned
ResumeAfterStartMarks ==
    /\ rpc = "start"
    /\ TakeResult(Res)
    /\ rpc' = "idle"
    /\ SetDesired("Running")
    /\ UNCHANGED <<mpc, mseen, rseen, coordRest>>
    /\ UNCHANGED <<probeVars, dataVars, stdioVars>>

\* on_resume: start() returned; Ok and Err are only logged
ResumeAfterStart ==
    /\ rpc = "start"
    /\ TakeResult(Res)
    /\ rpc' = "idle"
    /\ UNCHANGED <<desired, stateFile, writable, saving, mpc, mseen, rseen, coordRest>>
    /\ UNCHANGED <<probeVars, dataVars, stdioVars>>

\* handle_power_event(BatteryLow): a debug line
BatteryLow ==
    /\ Constructed
    /\ UNCHANGED vars

\* handle_power_event(PowerSourceChange): a debug line
PowerSourceChange ==
    /\ Constructed
    /\ UNCHANGED vars

\* ServiceManager::stop called on the PowerManager's ServiceManager
manager_stop ==
    /\ Constructed
    /\ Stop(Mon)
    /\ UNCHANGED <<probeVars, monVars, dataVars, stdioVars>>

\* the steps of the thread that runs start_monitoring and then the loop
MonitorStep ==
    \/ StartMonitoringRead
    \/ StartMonitoringProbe
    \/ StartMonitoringSpawn
    \/ LoopRead
    \/ LoopProbe
    \/ LoopStart
    \/ LoopAfterStart

ResumeStep == ResumeRead \/ ResumeProbe \/ ResumeAfterStart

\* the steps that bring a spawned mcp_service up
BootStep(s) == BuildProbe(s) \/ BuildOpen(s) \/ Bind(s)

\* the owner service is killed while it serves
CrashUp(s) ==
    /\ pc[s] = "running"
    /\ Crash(s)

(***************************************************************************)
(* The retrieval model: the ContextService of the desktop, over the sled   *)
(* tree it holds itself (local mode) or over the owner service's REST API  *)
(* (proxy mode).  Strings the code edits character by character are        *)
(* sequences of one-character strings; a summary, body or prompt is        *)
(* reduced to its character count, whether trim() leaves it empty, and     *)
(* the tokens the simple-hash embedder finds in it.                        *)
(***************************************************************************)
\* records the ingest operations of the model may put in the tree
MaxRecords == 2
\* ids Uuid::new_v4 may hand out
MaxIds == 4
\* dimensions of the simple-hash embedder
SimpleDims == 2

MAX_TAGS == 12

MAX_SUMMARY_CHARS == 640

MAX_BODY_CHARS == 16000

Ids == 1..MaxIds

\* Option<T>
None == <<>>
Some(x) == <<x>>

Min(a, b) == IF a < b THEN a ELSE b

clamp(x, lo, hi) == IF x < lo THEN lo ELSE IF x > hi THEN hi ELSE x

\* ---- str ----
WhiteSpace == {" ", "\t", "\n", "\r"}

RECURSIVE trim_start(_)
trim_start(s) ==
    IF s # <<>> /\ Head(s) \in WhiteSpace THEN trim_start(Tail(s)) ELSE s

RECURSIVE trim_end(_)
trim_end(s) ==
    IF s # <<>> /\ s[Len(s)] \in WhiteSpace
    THEN trim_end(SubSeq(s, 1, Len(s) - 1))
    ELSE s

trim(s) == trim_end(trim_start(s))

LowerOf(c) ==
    CASE c = "B" -> "b"
      [] c = "F" -> "f"
      [] c = "P" -> "p"
      [] OTHER -> c

to_lowercase(s) == [i \in 1..Len(s) |-> LowerOf(s[i])]

\* str::replace of every character in from by the character to
replace(s, from, to) == [i \in 1..Len(s) |-> IF s[i] \in from THEN to ELSE s[i]]

\* str::lines().next().unwrap_or_default()
RECURSIVE first_line(_)
first_line(s) ==
    IF s = <<>> \/ Head(s) = "\n" THEN <<>>
    ELSE IF Head(s) = "\r" /\ Len(s) > 1 /\ s[2] = "\n" THEN <<>>
    ELSE <<Head(s)>> \o first_line(Tail(s))

sanitize_single_line(s) == trim(first_line(s))

sanitize_project(s) == replace(sanitize_single_line(s), {"\\", "/", ":"}, "-")

NormalizedTag(tag) == replace(to_lowercase(trim(tag)), {" "}, "-")

normalize_tags(tags) ==
    LET kept == SelectSeq([i \in 1..Len(tags) |-> NormalizedTag(tags[i])],
                          LAMBDA t : t # <<>>)
    IN  SubSeq(kept, 1, Min(MAX_TAGS, Len(kept)))

\* ---- texts, kinds, payloads ----
Text(n, b, toks) == [chars |-> n, blank |-> b, tokens |-> toks]

\* summary.trim() + "\n" + body.trim()
text_to_embed(p) ==
    Text(0, p.summary.blank /\ p.body.blank, p.summary.tokens \o p.body.tokens)

Kind(v, l) == [variant |-> v, label |-> l]

validate_kind(kind) ==
    IF kind.variant = "Other" /\ trim(kind.label) = <<>> THEN "Validation" ELSE "Ok"

\* variant: a validation that reports every refusal of a field as Validation
\* and every refusal of the tags or the kind as LimitExceeded
ValidateKindsByField(p) ==
    IF trim(p.project) = <<>> THEN "Validation"
    ELSE IF trim(p.ide) = <<>> THEN "Validation"
    ELSE IF p.summary.blank THEN "Validation"
    ELSE IF p.summary.chars > MAX_SUMMARY_CHARS THEN "Validation"
    ELSE IF p.body.blank THEN "Validation"
    ELSE IF p.body.chars > MAX_BODY_CHARS THEN "Validation"
    ELSE IF Len(p.tags) > MAX_TAGS THEN "LimitExceeded"
    ELSE IF p.kind.variant = "Other" /\ trim(p.kind.label) = <<>> THEN "LimitExceeded"
    ELSE "Ok"

\* variant: a validation that lets an empty custom-kind label through
ValidateSkipsKind(p) ==
    IF trim(p.project) = <<>> THEN "Validation"
    ELSE IF trim(p.ide) = <<>> THEN "Validation"
    ELSE IF p.summary.blank THEN "Validation"
    ELSE IF p.summary.chars > MAX_SUMMARY_CHARS THEN "LimitExceeded"
    ELSE IF p.body.blank THEN "Validation"
    ELSE IF p.body.chars > MAX_BODY_CHARS THEN "LimitExceeded"
    ELSE IF Len(p.tags) > MAX_TAGS THEN "LimitExceeded"
    ELSE "Ok"

validate_payload(p) ==
    IF trim(p.project) = <<>> THEN "Validation"
    ELSE IF trim(p.ide) = <<>> THEN "Validation"
    ELSE IF p.summary.blank THEN "Validation"
    ELSE IF p.summary.chars > MAX_SUMMARY_CHARS THEN "LimitExceeded"
    ELSE IF p.body.blank THEN "Validation"
    ELSE IF p.body.chars > MAX_BODY_CHARS THEN "LimitExceeded"
    ELSE IF Len(p.tags) > MAX_TAGS THEN "LimitExceeded"
    ELSE validate_kind(p.kind)

\* ---- embedding engines ----
\* the configurations built on the simple-hash engine
SimpleConfigs == {"simple", "simple+custom"}

ModelName(b) ==
    CASE b = "simple" -> "ingat/simple-hash"
      [] b = "fastembed" -> "BAAI/bge-small-en-v1.5"
      [] OTHER -> CustomModel

Dims(b) == IF b \in SimpleConfigs THEN SimpleDims ELSE SimpleDims + 1

\* SimpleEmbedEngine::embed_internal without the L2 normalisation, which
\* changes no cosine: bucket i counts the tokens hashed to it
embed_internal(toks) ==
    [i \in 1..SimpleDims |->
        Cardinality({k \in 1..Len(toks) : toks[k] % SimpleDims = i - 1})]

\* the fastembed model: a vector of its own dimensionality, never zero
Inference(toks) ==
    [i \in 1..(SimpleDims + 1) |->
        IF i <= SimpleDims THEN embed_internal(toks)[i] ELSE 1]

\* EmbeddingEngine::embed of the engine built for backend b
embed(b, model, text) ==
    IF model # ModelName(b) THEN [err |-> "Embedding", vector |-> <<>>]
    ELSE IF text.blank THEN [err |-> "Validation", vector |-> <<>>]
    ELSE [err |-> "Ok",
          vector |-> IF b \in SimpleConfigs THEN embed_internal(text.tokens)
                     ELSE Inference(text.tokens)]

\* ---- records ----
ContextRecord_new(p, model, vector, id, now) ==
    [id |-> id,
     project |-> sanitize_project(p.project),
     ide |-> sanitize_single_line(p.ide),
     summary |-> p.summary,
     body |-> p.body,
     tags |-> normalize_tags(p.tags),
     kind |-> p.kind,
     model |-> model,
     vector |-> vector,
     created_at |-> now]

as_summary(r) ==
    [id |-> r.id, project |-> r.project, summary |-> r.summary,
     kind |-> r.kind, tags |-> r.tags, created_at |-> r.created_at]

\* variant: a filter that keeps only the two predicates the remote store
\* sends on, project and kind
MatchesProjectAndKind(r, f) ==
    /\ f.project # None => r.project = f.project[1]
    /\ f.kind # None => r.kind = f.kind[1]

NoFilters == [project |-> None, kind |-> None, tag |-> None, ide |-> None]

matches_filters(r, f) ==
    /\ f.project # None => r.project = f.project[1]
    /\ f.kind # None => r.kind = f.kind[1]
    /\ f.tag # None => \E i \in 1..Len(r.tags) : r.tags[i] = f.tag[1]
    /\ f.ide # None => r.ide = f.ide[1]

\* ---- the sled store ----
RECURSIVE Dot(_, _)
Dot(q, c) == IF q = <<>> \/ c = <<>> THEN 0 ELSE Head(q) * Head(c) + Dot(Tail(q), Tail(c))

\* a cosine is kept exactly, as sign(dot) * dot^2 over |q|^2 * |c|^2
Score(n, d) == [num |-> n, den |-> d]

ScoreLess(a, b) == a.num * b.den < b.num * a.den

cosine_similarity(q, c) ==
    IF Len(q) # Len(c) THEN [err |-> "Embedding", score |-> Score(0, 1)]
    ELSE IF Dot(q, q) = 0 \/ Dot(c, c) = 0 THEN [err |-> "Embedding", score |-> Score(0, 1)]
    ELSE [err |-> "Ok",
          score |-> Score((IF Dot(q, c) < 0 THEN -1 ELSE 1) * Dot(q, c) * Dot(q, c),
                          Dot(q, q) * Dot(c, c))]

\* Tree::iter(): the records in key order (a key holds one record)
Scan(S) ==
    [k \in 1..Cardinality(S) |->
        CHOOSE r \in S : Cardinality({t \in S : t.id < r.id}) = k - 1]

\* slice::sort_by(|a, b| b.key.cmp(&a.key)): stable, descending
RECURSIVE InsertByKey(_, _)
InsertByKey(s, x) ==
    IF s = <<>> THEN <<x>>
    ELSE IF ScoreLess(Head(s).key, x.key) THEN <<x>> \o s
    ELSE <<Head(s)>> \o InsertByKey(Tail(s), x)

RECURSIVE sort_by(_)
sort_by(s) ==
    IF s = <<>> THEN <<>>
    ELSE InsertByKey(sort_by(SubSeq(s, 1, Len(s) - 1)), s[Len(s)])

truncate(s, n) == SubSeq(s, 1, Min(n, Len(s)))

\* variant: a search that cuts the scan to the limit before it sorts
SledSearchTruncatesFirst(vector, limit, filters) ==
    LET cand == SelectSeq(Scan(contexts), LAMBDA r : matches_filters(r, filters))
        cos(i) == cosine_similarity(vector, cand[i].vector)
    IN  IF \E i \in 1..Len(cand) : cos(i).err # "Ok"
        THEN [err |-> "Embedding", pairs |-> <<>>, requests |-> 0]
        ELSE [err |-> "Ok", requests |-> 0,
              pairs |-> sort_by(truncate([i \in 1..Len(cand) |->
                                    [record |-> cand[i], key |-> cos(i).score]], limit))]

\* variant: a search that leaves out the records it cannot score
SledSearchSkipsUnscorable(vector, limit, filters) ==
    LET cand == SelectSeq(Scan(contexts), LAMBDA r :
                    /\ matches_filters(r, filters)
                    /\ cosine_similarity(vector, r.vector).err = "Ok")
        cos(i) == cosine_similarity(vector, cand[i].vector)
    IN  [err |-> "Ok", requests |-> 0,
         pairs |-> truncate(sort_by([i \in 1..Len(cand) |->
                                [record |-> cand[i], key |-> cos(i).score]]), limit)]

\* SledVectorStore::search
sled_search(vector, limit, filters) ==
    LET cand == SelectSeq(Scan(contexts), LAMBDA r : matches_filters(r, filters))
        cos(i) == cosine_similarity(vector, cand[i].vector)
    IN  IF \E i \in 1..Len(cand) : cos(i).err # "Ok"
        THEN [err |-> "Embedding", pairs |-> <<>>, requests |-> 0]
        ELSE [err |-> "Ok", requests |-> 0,
              pairs |-> truncate(sort_by([i \in 1..Len(cand) |->
                                    [record |-> cand[i], key |-> cos(i).score]]), limit)]

\* slice::sort_by(|a, b| b.created_at.cmp(&a.created_at)): stable,
\* descending; an item's place is one more than the number of items that
\* are newer, or as old and before it in the slice
sort_by_created_at(s) ==
    LET n == Len(s)
        place == [i \in 1..n |->
                    1 + Cardinality({j \in 1..n :
                            \/ s[j].created_at > s[i].created_at
                            \/ s[j].created_at = s[i].created_at /\ j < i})]
    IN  [k \in 1..n |-> s[CHOOSE i \in 1..n : place[i] = k]]

\* variant: a listing that returns the scan as it is, in key order
SledRecentInKeyOrder(project, limit) ==
    LET cand == SelectSeq(Scan(contexts),
                          LAMBDA r : project # None => r.project = project[1])
        items == truncate([i \in 1..Len(cand) |-> as_summary(cand[i])], limit)
    IN  [err |-> "Ok", requests |-> 0,
         items |-> [i \in 1..Len(items) |-> [record |-> items[i]]]]

\* SledVectorStore::recent
sled_recent(project, limit) ==
    LET cand == SelectSeq(Scan(contexts),
                          LAMBDA r : project # None => r.project = project[1])
        items == truncate(sort_by_created_at([i \in 1..Len(cand) |-> as_summary(cand[i])]),
                          limit)
    IN  [err |-> "Ok", requests |-> 0,
         items |-> [i \in 1..Len(items) |-> [record |-> items[i]]]]

\* the code points of the characters a project name of the model may hold
CharCode(c) ==
    CASE c = " " -> 32 [] c = "-" -> 45 [] c = "p" -> 112 [] c = "q" -> 113
      [] c = "z" -> 122 [] OTHER -> 0

\* str::cmp: byte-wise, a proper prefix first
RECURSIVE StrLess(_, _)
StrLess(a, b) ==
    IF b = <<>> THEN FALSE
    ELSE IF a = <<>> THEN TRUE
    ELSE IF Head(a) # Head(b) THEN CharCode(Head(a)) < CharCode(Head(b))
    ELSE StrLess(Tail(a), Tail(b))

\* SledVectorStore::projects: every record's project into a BTreeSet,
\* which iterates in ascending order
sled_projects ==
    LET unique == {r.project : r \in contexts}
    IN  [err |-> "Ok", requests |-> 0,
         names |-> [k \in 1..Cardinality(unique) |->
                      CHOOSE x \in unique :
                          Cardinality({y \in unique : StrLess(y, x)}) = k - 1]]

\* RemoteVectorStore::projects: no request is sent
remote_projects == [err |-> "Ok", names |-> <<>>, requests |-> 0]

\* ---- ContextService ----
Service(b, k) == [embedder |-> b, label |-> ModelName(b), store |-> k]

\* the service in the desktop's cell, and the owner service's
CellService == Service(config, cell[Desktop])

OwnerService == Service(svcBackend, "sled")

SearchRequest(prompt, filters, limit) == [prompt |-> prompt, filters |-> filters, limit |-> limit]

SearchResultDto(pair) ==
    [id |-> pair.record.id, project |-> pair.record.project,
     summary |-> pair.record.summary, body |-> pair.record.body,
     tags |-> pair.record.tags, kind |-> pair.record.kind,
     score |-> pair.key, created_at |-> pair.record.created_at]

\* the record RemoteVectorStore::search rebuilds from a result row
RemoteRecord(row) ==
    [record |-> [id |-> row.id, project |-> row.project, ide |-> <<>>,
                 summary |-> row.summary, body |-> row.body, tags |-> <<>>,
                 kind |-> row.kind, model |-> "remote", vector |-> <<>>,
                 created_at |-> row.created_at],
     key |-> row.score]

\* the status of an answer of save_context, list_contexts and
\* search_contexts in mcp_service: Json(..) of an Ok, and
\* StatusCode::INTERNAL_SERVER_ERROR with the error's text of any Err
handler_status(err) == IF err = "Ok" THEN 200 ELSE 500

Replied(err) == [status |-> handler_status(err)]

RECURSIVE search(_, _)
\* RemoteVectorStore::search: POST /api/search, answered by search_contexts
remote_search(vector, limit, filters) ==
    IF ~UreqOk(Health) THEN [err |-> "Storage", pairs |-> <<>>, requests |-> 1]
    ELSE LET r == search(OwnerService, SearchRequest(Text(0, TRUE, <<>>), NoFilters, limit))
         IN  IF ~UreqOk(Replied(r.err))
             THEN [err |-> "Storage", pairs |-> <<>>, requests |-> 1]
             ELSE [err |-> "Ok", requests |-> 1,
                   pairs |-> [i \in 1..Len(r.rows) |-> RemoteRecord(r.rows[i])]]

\* ContextService::search
search(svc, request) ==
    IF request.prompt.blank
    THEN [err |-> "Validation", rows |-> <<>>, embedWith |-> None, storeWith |-> None,
          requests |-> 0]
    ELSE LET effective_limit == clamp(request.limit, 1, 32)
             call == [engine |-> svc.embedder, model |-> svc.label]
             e == embed(svc.embedder, svc.label, request.prompt)
             m == IF svc.store = "sled"
                  THEN sled_search(e.vector, effective_limit, request.filters)
                  ELSE remote_search(e.vector, effective_limit, request.filters)
         IN  IF e.err # "Ok"
             THEN [err |-> e.err, rows |-> <<>>, embedWith |-> Some(call), storeWith |-> None,
                   requests |-> 0]
             ELSE IF m.err # "Ok"
             THEN [err |-> m.err, rows |-> <<>>, embedWith |-> Some(call),
                   storeWith |-> Some(svc.store), requests |-> m.requests]
             ELSE [err |-> "Ok",
                   rows |-> [i \in 1..Len(m.pairs) |-> SearchResultDto(m.pairs[i])],
                   embedWith |-> Some(call), storeWith |-> Some(svc.store),
                   requests |-> m.requests]

\* the request body RemoteVectorStore::persist builds from its record
RemotePayload(r) ==
    [project |-> r.project, ide |-> r.ide, summary |-> r.summary,
     body |-> r.body, tags |-> r.tags, kind |-> r.kind]

RECURSIVE ingest(_, _, _, _, _)
\* VectorStore::persist: the sled insert and flush, or POST /api/contexts
\* answered by save_context, which ingests the payload again
persist(kind, record, id2) ==
    IF kind = "sled" THEN [err |-> "Ok", writes |-> {record}, ids |-> {}, requests |-> 0]
    ELSE IF ~UreqOk(Health)
    THEN [err |-> "Storage", writes |-> {}, ids |-> {}, requests |-> 1]
    ELSE LET r == ingest(OwnerService, RemotePayload(record), id2, id2, record.created_at + 1)
         IN  IF ~UreqOk(Replied(r.err))
             THEN [err |-> "Storage", writes |-> {}, ids |-> r.ids, requests |-> 1]
             ELSE [err |-> "Ok", writes |-> r.writes, ids |-> r.ids, requests |-> 1]

\* ContextService::ingest; id1 and id2 are the ids Uuid::new_v4 returns to
\* this service and, behind the remote store, to the owner service
ingest(svc, p, id1, id2, now) ==
    LET v == validate_payload(p)
        call == [engine |-> svc.embedder, model |-> svc.label]
        e == embed(svc.embedder, svc.label, text_to_embed(p))
        record == ContextRecord_new(p, svc.label, e.vector, id1, now)
        w == persist(svc.store, record, id2)
    IN  IF v # "Ok"
        THEN [err |-> v, summary |-> None, writes |-> {}, ids |-> {},
              embedWith |-> None, storeWith |-> None, requests |-> 0]
        ELSE IF e.err # "Ok"
        THEN [err |-> e.err, summary |-> None, writes |-> {}, ids |-> {},
              embedWith |-> Some(call), storeWith |-> None, requests |-> 0]
        ELSE IF w.err # "Ok"
        THEN [err |-> w.err, summary |-> None, writes |-> {}, ids |-> {id1} \cup w.ids,
              embedWith |-> Some(call), storeWith |-> Some(svc.store),
              requests |-> w.requests]
        ELSE [err |-> "Ok", summary |-> Some(as_summary(record)), writes |-> w.writes,
              ids |-> {id1} \cup w.ids,
              embedWith |-> Some(call), storeWith |-> Some(svc.store),
              requests |-> w.requests]

RECURSIVE history(_, _, _)
\* variant: a listing that asks the owner a second time when the first
\* request fails
RemoteRecentRetries(project, limit) ==
    IF ~UreqOk(Health) THEN [err |-> "Storage", items |-> <<>>, requests |-> 2]
    ELSE LET r == history(OwnerService, project, Some(limit))
         IN  IF ~UreqOk(Replied(r.err))
             THEN [err |-> "Storage", items |-> <<>>, requests |-> 2]
             ELSE [err |-> "Ok", requests |-> 1,
                   items |-> [i \in 1..Len(r.items) |-> [record |-> r.items[i]]]]

\* RemoteVectorStore::recent: GET /api/contexts, answered by list_contexts
remote_recent(project, limit) ==
    IF ~UreqOk(Health) THEN [err |-> "Storage", items |-> <<>>, requests |-> 1]
    ELSE LET r == history(OwnerService, project, Some(limit))
         IN  IF ~UreqOk(Replied(r.err))
             THEN [err |-> "Storage", items |-> <<>>, requests |-> 1]
             ELSE [err |-> "Ok", requests |-> 1,
                   items |-> [i \in 1..Len(r.items) |-> [record |-> r.items[i]]]]

\* ContextService::history
history(svc, project, limit) ==
    LET capped_limit == clamp(IF limit = None THEN 8 ELSE limit[1], 1, 50)
        m == IF svc.store = "sled" THEN sled_recent(project, capped_limit)
             ELSE remote_recent(project, capped_limit)
    IN  [err |-> m.err,
         items |-> [i \in 1..Len(m.items) |-> m.items[i].record],
         embedWith |-> None, storeWith |-> Some(svc.store), requests |-> m.requests]

\* ContextService::projects
projects(svc) ==
    LET m == IF svc.store = "sled" THEN sled_projects ELSE remote_projects
    IN  [err |-> m.err, names |-> m.names,
         embedWith |-> None, storeWith |-> Some(svc.store), requests |-> m.requests]

\* VectorStore::ping: SledVectorStore flushes the db; RemoteVectorStore
\* sends GET /health and wants the status 200
ping(kind) ==
    IF kind = "sled" THEN [err |-> "Ok", requests |-> 0]
    ELSE IF is_running(Health) THEN [err |-> "Ok", requests |-> 1]
    ELSE [err |-> "Storage", requests |-> 1]

\* ContextService::health: the error of the ping, or a status with ok set
health(svc) ==
    LET probe == ping(svc.store)
    IN  [err |-> probe.err,
         ok |-> probe.err = "Ok",
         label |-> IF probe.err = "Ok" THEN svc.label ELSE "",
         embedWith |-> None, storeWith |-> Some(svc.store), requests |-> probe.requests]

\* ---- the operations of the desktop ----
NoFlight == [op |-> "none", arg |-> None, h |-> None]

NoOut ==
    [op |-> "none", err |-> "Ok", summary |-> None, rows |-> <<>>, items |-> <<>>,
     names |-> <<>>, label |-> "", ok |-> FALSE, requests |-> 0, status |-> 0,
     embedWith |-> None, storeWith |-> None, h |-> None,
     swapped |-> FALSE, arg |-> None]

DataQuiet ==
    /\ contexts = {}
    /\ issued = {}
    /\ svcBackend = "simple"
    /\ flight = NoFlight
    /\ out = NoOut

\* AppState::service(): a command clones the Arc in the cell and runs the
\* operation on that service in spawn_blocking
Taken(op, arg) == [op |-> op, arg |-> Some(arg), h |-> Some(CellService)]

ingest_context(p) ==
    /\ pc[Desktop] = "running"
    /\ flight = NoFlight
    /\ Cardinality(contexts) < MaxRecords
    /\ Cardinality(Ids \ issued) >= 2
    /\ flight' = Taken("ingest", p)
    /\ out = NoOut
    /\ UNCHANGED <<contexts, issued, svcBackend, out>>
    /\ UNCHANGED <<coordVars, probeVars, monVars, stdioVars>>

search_contexts(q) ==
    /\ pc[Desktop] = "running"
    /\ flight = NoFlight
    /\ flight' = Taken("search", q)
    /\ out = NoOut
    /\ UNCHANGED <<contexts, issued, svcBackend, out>>
    /\ UNCHANGED <<coordVars, probeVars, monVars, stdioVars>>

recent_contexts(a) ==
    /\ pc[Desktop] = "running"
    /\ flight = NoFlight
    /\ flight' = Taken("history", a)
    /\ out = NoOut
    /\ UNCHANGED <<contexts, issued, svcBackend, out>>
    /\ UNCHANGED <<coordVars, probeVars, monVars, stdioVars>>

list_projects ==
    /\ pc[Desktop] = "running"
    /\ flight = NoFlight
    /\ flight' = Taken("projects", <<>>)
    /\ out = NoOut
    /\ UNCHANGED <<contexts, issued, svcBackend, out>>
    /\ UNCHANGED <<coordVars, probeVars, monVars, stdioVars>>

health_command ==
    /\ pc[Desktop] = "running"
    /\ flight = NoFlight
    /\ flight' = Taken("health", <<>>)
    /\ out = NoOut
    /\ UNCHANGED <<contexts, issued, svcBackend, out>>
    /\ UNCHANGED <<coordVars, probeVars, monVars, stdioVars>>

\* the command hands the result of its operation to the caller
CommandReturns ==
    /\ out # NoOut
    /\ out' = NoOut
    /\ UNCHANGED <<contexts, issued, svcBackend, flight>>
    /\ UNCHANGED <<coordVars, probeVars, monVars, stdioVars>>

\* variant: an operation that takes the model label from the cell again
HandleMixesLabel == [flight.h[1] EXCEPT !.label = ModelName(config)]

\* the service an operation in flight runs on: the one it cloned, whatever
\* the cell holds by now (out.swapped: the cell was replaced meanwhile)
Handle == flight.h[1]

Done(op, r) ==
    [op |-> op, err |-> r.err, summary |-> r.summary, rows |-> r.rows,
     items |-> r.items, names |-> r.names, label |-> r.label, ok |-> r.ok,
     requests |-> r.requests, status |-> r.status, embedWith |-> r.embedWith,
     storeWith |-> r.storeWith, h |-> flight.h,
     swapped |-> flight.h # Some(CellService), arg |-> flight.arg]

NoValue ==
    [summary |-> None, rows |-> <<>>, items |-> <<>>, names |-> <<>>, label |-> "",
     ok |-> FALSE, status |-> 0]

\* variant: an ingest into a store that keeps every record under one key
RunIngestOverwrites ==
    /\ flight.op = "ingest"
    /\ \E id1 \in Ids \ issued : \E id2 \in Ids \ (issued \cup {id1}) :
        LET r == ingest(Handle, flight.arg[1], id1, id2, Cardinality(issued) + 1) IN
        /\ contexts' = IF r.writes = {} THEN contexts ELSE r.writes
        /\ issued' = issued \cup r.ids
        /\ out' = Done("ingest", [NoValue EXCEPT !.summary = r.summary] @@ r)
    /\ flight' = NoFlight
    /\ UNCHANGED svcBackend
    /\ UNCHANGED <<coordVars, probeVars, monVars, stdioVars>>

RunIngest ==
    /\ flight.op = "ingest"
    /\ \E id1 \in Ids \ issued : \E id2 \in Ids \ (issued \cup {id1}) :
        LET r == ingest(Handle, flight.arg[1], id1, id2, Cardinality(issued) + 1) IN
        /\ contexts' = contexts \cup r.writes
        /\ issued' = issued \cup r.ids
        /\ out' = Done("ingest", [NoValue EXCEPT !.summary = r.summary] @@ r)
    /\ flight' = NoFlight
    /\ UNCHANGED svcBackend
    /\ UNCHANGED <<coordVars, probeVars, monVars, stdioVars>>

RunSearch ==
    /\ flight.op = "search"
    /\ LET r == search(Handle, flight.arg[1]) IN
        out' = Done("search", [NoValue EXCEPT !.rows = r.rows] @@ r)
    /\ flight' = NoFlight
    /\ UNCHANGED <<contexts, issued, svcBackend>>
    /\ UNCHANGED <<coordVars, probeVars, monVars, stdioVars>>

RunHistory ==
    /\ flight.op = "history"
    /\ LET r == history(Handle, flight.arg[1].project, flight.arg[1].limit) IN
        out' = Done("history", [NoValue EXCEPT !.items = r.items] @@ r)
    /\ flight' = NoFlight
    /\ UNCHANGED <<contexts, issued, svcBackend>>
    /\ UNCHANGED <<coordVars, probeVars, monVars, stdioVars>>

RunProjects ==
    /\ flight.op = "projects"
    /\ LET r == projects(Handle) IN
        out' = Done("projects", [NoValue EXCEPT !.names = r.names] @@ r)
    /\ flight' = NoFlight
    /\ UNCHANGED <<contexts, issued, svcBackend>>
    /\ UNCHANGED <<coordVars, probeVars, monVars, stdioVars>>

RunHealth ==
    /\ flight.op = "health"
    /\ LET r == health(Handle) IN
        out' = Done("health", [NoValue EXCEPT !.label = r.label, !.ok = r.ok] @@ r)
    /\ flight' = NoFlight
    /\ UNCHANGED <<contexts, issued, svcBackend>>
    /\ UNCHANGED <<coordVars, probeVars, monVars, stdioVars>>

\* ---- the set_embedding_backend command on any request ----
\* the backend_id values of a request
BackendIds == Backends \cup {"onnx"}

\* the model_override values of a request
Overrides == {None, Some(CustomModel)}

\* EmbeddingBackend::with_default_model
with_default_model(id) == IF id \in Backends THEN Some(id) ELSE None

\* apply_model_override: the model name of the backend is replaced
apply_model_override(b, o) ==
    IF o = None THEN b
    ELSE IF b = "simple" THEN "simple+custom" ELSE "fastembed+custom"

\* init_embedder succeeds: SimpleEmbedEngine::try_new takes any model name,
\* FastEmbedEngine::try_new only the names parse_model knows
init_embedder(b) == b # "fastembed+custom"

\* the request is refused before anything is assigned
Refused(id, o) ==
    \/ with_default_model(id) = None
    \/ ~init_embedder(apply_model_override(with_default_model(id)[1], o))

\* the command: with_default_model, apply_model_override, init_embedder,
\* a new ContextService over the same store, ConfigManager::set_backend
\* ("guard.embedding = backend; self.persist_locked(&guard)?"), then the
\* swap of the cell; written: fs::write of the config file succeeds
set_embedding_backend_payload(id, o, written) ==
    /\ pc[Desktop] = "running"
    /\ IF Refused(id, o)
       THEN UNCHANGED <<config, active, cell>>
       ELSE LET backend == apply_model_override(with_default_model(id)[1], o) IN
            IF ~written
            THEN /\ active' = backend
                 /\ UNCHANGED <<config, cell>>
            ELSE /\ active' = backend
                 /\ config' = backend
                 /\ cell' = [cell EXCEPT ![Desktop] = store[Desktop]]
    /\ UNCHANGED <<pc, mode, engine, store, binary, spc, sres, spawnedBy, stops>>
    /\ UNCHANGED <<probeVars, monVars, dataVars, stdioVars>>

\* ---- the REST handlers of the owner service ----
\* a request arrives at a route of mcp_service; the handler clones the
\* service out of its state
Routed(op, arg) == [op |-> op, arg |-> Some(arg), h |-> Some(OwnerService)]

post_contexts(p) ==
    /\ \E s \in Svc : pc[s] = "running"
    /\ flight = NoFlight
    /\ Cardinality(contexts) < MaxRecords
    /\ Cardinality(Ids \ issued) >= 1
    /\ flight' = Routed("save_context", p)
    /\ out = NoOut
    /\ UNCHANGED <<contexts, issued, svcBackend, out>>
    /\ UNCHANGED <<coordVars, probeVars, monVars, stdioVars>>

post_search(q) ==
    /\ \E s \in Svc : pc[s] = "running"
    /\ flight = NoFlight
    /\ flight' = Routed("search_contexts", q)
    /\ out = NoOut
    /\ UNCHANGED <<contexts, issued, svcBackend, out>>
    /\ UNCHANGED <<coordVars, probeVars, monVars, stdioVars>>

get_contexts(a) ==
    /\ \E s \in Svc : pc[s] = "running"
    /\ flight = NoFlight
    /\ flight' = Routed("list_contexts", a)
    /\ out = NoOut
    /\ UNCHANGED <<contexts, issued, svcBackend, out>>
    /\ UNCHANGED <<coordVars, probeVars, monVars, stdioVars>>

save_context ==
    /\ flight.op = "save_context"
    /\ \E id \in Ids \ issued :
        LET r == ingest(Handle, flight.arg[1], id, id, Cardinality(issued) + 1) IN
        /\ contexts' = contexts \cup r.writes
        /\ issued' = issued \cup r.ids
        /\ out' = Done("save_context",
                       [NoValue EXCEPT !.summary = r.summary,
                                       !.status = handler_status(r.err)] @@ r)
    /\ flight' = NoFlight
    /\ UNCHANGED svcBackend
    /\ UNCHANGED <<coordVars, probeVars, monVars, stdioVars>>

list_contexts ==
    /\ flight.op = "list_contexts"
    /\ LET r == history(Handle, flight.arg[1].project, flight.arg[1].limit) IN
        out' = Done("list_contexts",
                    [NoValue EXCEPT !.items = r.items,
                                    !.status = handler_status(r.err)] @@ r)
    /\ flight' = NoFlight
    /\ UNCHANGED <<contexts, issued, svcBackend>>
    /\ UNCHANGED <<coordVars, probeVars, monVars, stdioVars>>

service_search_contexts ==
    /\ flight.op = "search_contexts"
    /\ LET r == search(Handle, flight.arg[1]) IN
        out' = Done("search_contexts",
                    [NoValue EXCEPT !.rows = r.rows,
                                    !.status = handler_status(r.err)] @@ r)
    /\ flight' = NoFlight
    /\ UNCHANGED <<contexts, issued, svcBackend>>
    /\ UNCHANGED <<coordVars, probeVars, monVars, stdioVars>>

\* ---- requests the model issues ----
BugFixUpper == <<"B", "u", "g", " ", "F", "i", "x">>

BugFixLower == <<"b", "u", "g", " ", "f", "i", "x">>

TwoSpaces == <<"a", " ", " ", "b">>

BasePayload ==
    [project |-> <<"p">>, ide |-> <<"v">>,
     summary |-> Text(3, FALSE, <<0>>), body |-> Text(9, FALSE, <<1>>),
     tags |-> <<>>, kind |-> Kind("FixHistory", <<>>)]

ProjectInputs == {<<>>, <<" ", " ">>, <<"q">>}

IdeInputs == {<<>>, <<"\t">>}

SummaryInputs ==
    {Text(0, TRUE, <<>>), Text(2, TRUE, <<>>), Text(3, FALSE, <<>>),
     Text(MAX_SUMMARY_CHARS, FALSE, <<0>>), Text(MAX_SUMMARY_CHARS + 1, FALSE, <<0>>)}

BodyInputs ==
    {Text(0, TRUE, <<>>), Text(1, TRUE, <<>>),
     Text(MAX_BODY_CHARS, FALSE, <<1>>), Text(MAX_BODY_CHARS + 1, FALSE, <<1>>)}

TagInputs ==
    {<<BugFixUpper, BugFixLower, <<>>>>, <<TwoSpaces>>,
     [i \in 1..MAX_TAGS |-> <<"t">>], [i \in 1..(MAX_TAGS + 1) |-> <<"t">>],
     [i \in 1..(MAX_TAGS + 1) |-> IF i = 1 THEN <<>> ELSE <<"t">>]}

KindInputs == {Kind("Other", <<>>), Kind("Other", <<" ">>), Kind("Other", <<"x">>)}

\* the base payload with one field replaced, a payload with no token at
\* all, and two payloads with two faults
Payloads ==
    {BasePayload}
    \cup {[BasePayload EXCEPT !.project = x] : x \in ProjectInputs}
    \cup {[BasePayload EXCEPT !.ide = x] : x \in IdeInputs}
    \cup {[BasePayload EXCEPT !.summary = x] : x \in SummaryInputs}
    \cup {[BasePayload EXCEPT !.body = x] : x \in BodyInputs}
    \cup {[BasePayload EXCEPT !.tags = x] : x \in TagInputs}
    \cup {[BasePayload EXCEPT !.kind = x] : x \in KindInputs}
    \cup {[BasePayload EXCEPT !.summary = Text(3, FALSE, <<>>), !.body = Text(3, FALSE, <<>>)],
          [BasePayload EXCEPT !.project = <<>>, !.tags = [i \in 1..(MAX_TAGS + 1) |-> <<"t">>]],
          [BasePayload EXCEPT !.summary = Text(MAX_SUMMARY_CHARS + 1, FALSE, <<0>>),
                              !.kind = Kind("Other", <<>>)]}

PromptInputs == {Text(0, TRUE, <<>>), Text(2, TRUE, <<>>), Text(3, FALSE, <<0>>)}

HistoryArgs == {[project |-> None, limit |-> None]}

\* ---- the desktop serving requests ----
Only(p, yes, no) == [q \in Proc |-> IF q = p THEN yes ELSE no]

\* the desktop holds the sled store itself
ServingLocal ==
    /\ pc = Only(Desktop, "running", "off")
    /\ mode = Only(Desktop, "owner", "none")
    /\ engine = Only(Desktop, TRUE, FALSE)
    /\ store = Only(Desktop, "sled", "none")
    /\ cell = store
    /\ binary = FALSE
    /\ spawnedBy = [s \in Svc |-> "none"]
    /\ svcBackend = "simple"

\* an owner service holds it and the desktop is its proxy
ServingProxy ==
    /\ pc = [Only("svc1", "running", "off") EXCEPT ![Desktop] = "running"]
    /\ mode = [Only("svc1", "owner", "none") EXCEPT ![Desktop] = "proxy"]
    /\ engine = Only("svc1", TRUE, FALSE)
    /\ store = [Only("svc1", "sled", "none") EXCEPT ![Desktop] = "remote"]
    /\ cell = store
    /\ binary = TRUE
    /\ spawnedBy = [s \in Svc |-> IF s = "svc1" THEN Operator ELSE "none"]
    /\ svcBackend \in Backends

\* the desktop has started in one of the two modes and waits for commands
Serving ==
    /\ config = "simple"
    /\ active = config
    /\ spc = [c \in Callers |-> "idle"]
    /\ sres = [c \in Callers |-> "none"]
    /\ stops = 0
    /\ ServingLocal \/ ServingProxy
    /\ flight = NoFlight
    /\ out = NoOut

DataInit ==
    /\ Serving
    /\ contexts = {}
    /\ issued = {}

\* ---- stores to search: records as ingest leaves them ----
\* records of the largest store, more than the 32 a search may return
BigStoreSize == 34

SeedPayload(project, ide, toks, tags, kind) ==
    [project |-> project, ide |-> ide,
     summary |-> Text(3, FALSE, toks), body |-> Text(3, FALSE, <<>>),
     tags |-> tags, kind |-> kind]

Stored(p, b, id, now) ==
    ContextRecord_new(p, ModelName(b), embed(b, ModelName(b), text_to_embed(p)).vector, id, now)

SeedA == SeedPayload(<<"p">>, <<"v">>, <<0>>, <<<<"x">>>>, Kind("FixHistory", <<>>))

SeedB == SeedPayload(<<"q">>, <<"w">>, <<0, 1>>, <<>>, Kind("CodeSnippet", <<>>))

SeedC == SeedPayload(<<"p">>, <<"v">>, <<1>>, <<<<"y">>, <<"x">>>>, Kind("Other", <<"x">>))

SeedD == SeedPayload(<<"p">>, <<"w">>, <<0>>, <<<<"x">>>>, Kind("FixHistory", <<>>))

SeedZ == SeedPayload(<<"q">>, <<"v">>, <<>>, <<>>, Kind("FixHistory", <<>>))

FourRecords ==
    {Stored(SeedA, "simple", 2, 1), Stored(SeedB, "simple", 3, 2),
     Stored(SeedC, "simple", 1, 3), Stored(SeedD, "simple", 4, 4)}

SeedStores ==
    {{},
     FourRecords,
     FourRecords \cup {Stored(SeedZ, "simple", 5, 5)},
     {Stored(SeedA, "simple", 1, 1), Stored(SeedB, "fastembed", 2, 2)},
     {Stored(IF i % 3 = 0 THEN SeedA ELSE IF i % 3 = 1 THEN SeedB ELSE SeedC, "simple", i, i) :
         i \in 1..BigStoreSize}}

FilterInputs ==
    [project : {None, Some(<<"p">>), Some(<<"q">>)},
     kind : {None, Some(Kind("FixHistory", <<>>))},
     tag : {None, Some(<<"x">>)},
     ide : {None, Some(<<"v">>)}]

Queries ==
    {SearchRequest(q, f, n) :
        q \in {Text(2, TRUE, <<>>), Text(3, FALSE, <<0>>), Text(5, FALSE, <<0, 1>>),
               Text(3, FALSE, <<>>)},
        f \in FilterInputs,
        n \in {0, 1, 2, 40}}

\* ---- stores to list ----
\* records of the largest store to list, more than the 50 a listing may return
RecentStoreSize == 54

\* two records of project q among records of project p; consecutive ids
\* share their creation time
RecentStores ==
    {{},
     FourRecords,
     {Stored(IF i <= 2 THEN SeedB ELSE SeedA, "simple", i, (i + 1) \div 2) :
         i \in 1..RecentStoreSize}}

HistoryQueries ==
    [project : {None, Some(<<"p">>), Some(<<"q">>), Some(<<"z">>)},
     limit : {None, Some(0), Some(1), Some(3), Some(50), Some(60)}]

RunStep == RunIngest \/ RunSearch \/ RunHistory \/ RunHealth

TakeStep ==
    \/ \E p \in Payloads : ingest_context(p)
    \/ \E q \in PromptInputs : search_contexts(SearchRequest(q, NoFilters, 8))
    \/ \E a \in HistoryArgs : recent_contexts(a)
    \/ health_command

(***************************************************************************)
(* The stdio bridge: run_mcp_stdio_server's loop over the lines of stdin.  *)
(* A line is blank, or text that is no JSON, or a JSON value reduced to    *)
(* the fields handle_jsonrpc_request looks at.                             *)
(***************************************************************************)
\* lines a client sends before it closes stdin
MaxLines == 3

Line(form, id, method, params) ==
    [form |-> form, id |-> id, method |-> method, params |-> params]

NoLine == Line("none", None, "", None)

Blank == Line("blank", None, "", None)

Malformed == Line("malformed", None, "", None)

\* a JSON value: its "id" member if it has one, its "method" member if
\* that is a string (else ""), its "params" member if it has one
Request(id, method, params) == Line("json", id, method, params)

\* the params of a tools/call: "name", and "arguments" with the request
\* type serde can make of them
Call(name, shape, value) == [name |-> name, shape |-> shape, value |-> value]

\* the codes of the JSON-RPC errors the bridge answers with
ErrorCode(error) ==
    CASE error = "parse_error" -> -32700
      [] error = "method_not_found" -> -32601
      [] error = "invalid_params" -> -32602
      [] error = "resource_not_found" -> -32002
      [] error = "internal_error" -> -32603

\* interfaces::mcp::map_domain_error
map_domain_error(err) ==
    CASE err \in {"Validation", "LimitExceeded"} -> "invalid_params"
      [] err = "NotFound" -> "resource_not_found"
      [] err \in {"Embedding", "Storage", "Other"} -> "internal_error"

\* a response line: code 0 for a result; detail is data.detail of an error
Response(id, code, detail) == [id |-> id, code |-> code, detail |-> detail]

\* variant: a bridge that answers every request with the id null
ReplyIdIsNull(request) == "null"

\* json!({"id": id}) of the Option that request.get("id").cloned() is
ReplyId(request) == IF request.id = None THEN "null" ELSE request.id[1]

\* IngatMcpServer::current_service of the bridge
BridgeService == Service(config, cell[Stdio])

\* handle_jsonrpc_request, with the records and ids a tool call leaves
handle_jsonrpc_request(request, id1, id2, now) ==
    LET id == ReplyId(request)
        only(resp) == [response |-> resp, writes |-> {}, ids |-> {}]
        failed(err) == Response(id, ErrorCode(map_domain_error(err)), err)
    IN  CASE request.method \in {"initialize", "tools/list"} ->
                only(Response(id, 0, ""))
          [] request.method = "tools/call" /\ request.params = None ->
                only(Response(id, ErrorCode("invalid_params"), ""))
          [] request.method = "tools/call" /\ request.params # None ->
                LET p == request.params[1] IN
                CASE p.name = "ingest_context" /\ p.shape = "IngestContextRequest" ->
                        LET r == ingest(BridgeService, p.value[1], id1, id2, now)
                        IN  [response |-> IF r.err = "Ok" THEN Response(id, 0, "")
                                          ELSE failed(r.err),
                             writes |-> r.writes, ids |-> r.ids]
                  [] p.name = "search_contexts" /\ p.shape = "SearchRequest" ->
                        LET r == search(BridgeService, p.value[1])
                        IN  only(IF r.err = "Ok" THEN Response(id, 0, "") ELSE failed(r.err))
                  [] OTHER ->
                        only(Response(id, ErrorCode("invalid_params"), ""))
          [] OTHER ->
                only(Response(id, ErrorCode("method_not_found"), ""))

StdioQuiet ==
    /\ stdin = <<>>
    /\ stdout = <<>>
    /\ lpc = "off"
    /\ line = NoLine
    /\ taken = <<>>
    /\ pipe = TRUE

\* read_line returns Ok(0): the client closed stdin
ReadEof ==
    /\ lpc = "read"
    /\ stdin = <<>>
    /\ lpc' = "eof"
    /\ UNCHANGED <<stdin, stdout, line, taken, pipe>>
    /\ UNCHANGED <<coordVars, probeVars, monVars, dataVars>>

\* read_line returns Err (an I/O error, or bytes that are not UTF-8)
ReadFails ==
    /\ lpc = "read"
    /\ lpc' = "read_failed"
    /\ UNCHANGED <<stdin, stdout, line, taken, pipe>>
    /\ UNCHANGED <<coordVars, probeVars, monVars, dataVars>>

\* a line that trim() leaves empty: continue
ReadBlank ==
    /\ lpc = "read"
    /\ stdin # <<>>
    /\ Head(stdin).form = "blank"
    /\ line' = Head(stdin)
    /\ stdin' = Tail(stdin)
    /\ UNCHANGED <<stdout, lpc, taken, pipe>>
    /\ UNCHANGED <<coordVars, probeVars, monVars, dataVars>>

ReadLine ==
    /\ lpc = "read"
    /\ stdin # <<>>
    /\ Head(stdin).form # "blank"
    /\ line' = Head(stdin)
    /\ stdin' = Tail(stdin)
    /\ taken' = Append(taken, Head(stdin))
    /\ lpc' = "handle"
    /\ UNCHANGED <<stdout, pipe>>
    /\ UNCHANGED <<coordVars, probeVars, monVars, dataVars>>

\* variant: a bridge that gives up at the first line that is no JSON
ParseFailsEndsLoop ==
    /\ lpc = "handle"
    /\ line.form = "malformed"
    /\ stdout' = IF pipe THEN Append(stdout, Response("absent", ErrorCode("parse_error"), ""))
                 ELSE stdout
    /\ lpc' = "read_failed"
    /\ UNCHANGED <<stdin, line, taken, pipe>>
    /\ UNCHANGED <<coordVars, probeVars, monVars, dataVars>>

\* serde_json::from_str fails: the parse error is written with `let _ =`,
\* whether or not the writes succeed, and the loop goes on
ParseFails ==
    /\ lpc = "handle"
    /\ line.form = "malformed"
    /\ stdout' = IF pipe THEN Append(stdout, Response("absent", ErrorCode("parse_error"), ""))
                 ELSE stdout
    /\ lpc' = "read"
    /\ UNCHANGED <<stdin, line, taken, pipe>>
    /\ UNCHANGED <<coordVars, probeVars, monVars, dataVars>>

IsIngest(request) ==
    /\ request.method = "tools/call"
    /\ request.params # None
    /\ request.params[1].name = "ingest_context"
    /\ request.params[1].shape = "IngestContextRequest"

\* the request is handled and its response written and flushed; a write
\* that fails ends the loop
Respond ==
    /\ lpc = "handle"
    /\ line.form = "json"
    /\ IsIngest(line) => Cardinality(contexts) < MaxRecords /\ Cardinality(Ids \ issued) >= 2
    /\ \E id1 \in IF IsIngest(line) THEN Ids \ issued ELSE {0} :
       \E id2 \in IF IsIngest(line) THEN Ids \ (issued \cup {id1}) ELSE {0} :
        LET r == handle_jsonrpc_request(line, id1, id2, Cardinality(issued) + 1) IN
        /\ contexts' = contexts \cup r.writes
        /\ issued' = issued \cup r.ids
        /\ stdout' = IF pipe THEN Append(stdout, r.response) ELSE stdout
    /\ lpc' = IF pipe THEN "read" ELSE "write_failed"
    /\ UNCHANGED <<stdin, line, taken, pipe>>
    /\ UNCHANGED <<svcBackend, flight, out>>
    /\ UNCHANGED <<coordVars, probeVars, monVars>>

\* the client stops reading the bridge's stdout
ClientCloses ==
    /\ lpc \in {"read", "handle"}
    /\ pipe
    /\ pipe' = FALSE
    /\ UNCHANGED <<stdin, stdout, lpc, line, taken>>
    /\ UNCHANGED <<coordVars, probeVars, monVars, dataVars>>

\* ---- lines the model's client sends ----
LineInputs ==
    {Blank, Malformed,
     Request(Some("1"), "initialize", None),
     Request(Some("2"), "tools/list", None),
     Request(None, "notifications/initialized", None),
     Request(Some("2"), "resources/list", None),
     Request(None, "", None),
     Request(Some("1"), "tools/call", None),
     Request(Some("2"), "tools/call", Some(Call("delete_context", "none", None))),
     Request(Some("1"), "tools/call", Some(Call("ingest_context", "none", None))),
     Request(Some("1"), "tools/call",
             Some(Call("ingest_context", "IngestContextRequest", Some(BasePayload)))),
     Request(Some("2"), "tools/call",
             Some(Call("ingest_context", "IngestContextRequest",
                       Some([BasePayload EXCEPT !.project = <<>>])))),
     Request(Some("1"), "tools/call",
             Some(Call("ingest_context", "IngestContextRequest",
                       Some([BasePayload EXCEPT
                               !.summary = Text(MAX_SUMMARY_CHARS + 1, FALSE, <<0>>)])))),
     Request(Some("2"), "tools/call",
             Some(Call("search_contexts", "SearchRequest",
                       Some(SearchRequest(Text(3, FALSE, <<0>>), NoFilters, 8))))),
     Request(Some("1"), "tools/call",
             Some(Call("search_contexts", "SearchRequest",
                       Some(SearchRequest(Text(2, TRUE, <<>>), NoFilters, 8)))))}

RECURSIVE LinesUpTo(_)
LinesUpTo(n) ==
    IF n = 0 THEN {<<>>}
    ELSE LinesUpTo(n - 1) \cup {Append(s, l) : s \in LinesUpTo(n - 1), l \in LineInputs}

\* the bridge holds the sled store itself
BridgeLocal ==
    /\ pc = Only(Stdio, "running", "off")
    /\ mode = Only(Stdio, "owner", "none")
    /\ engine = Only(Stdio, TRUE, FALSE)
    /\ store = Only(Stdio, "sled", "none")
    /\ cell = store
    /\ binary = FALSE
    /\ spawnedBy = [s \in Svc |-> "none"]
    /\ svcBackend = "simple"

\* an owner service holds it and the bridge is its proxy
BridgeProxy ==
    /\ pc = [Only("svc1", "running", "off") EXCEPT ![Stdio] = "running"]
    /\ mode = [Only("svc1", "owner", "none") EXCEPT ![Stdio] = "proxy"]
    /\ engine = Only("svc1", TRUE, FALSE)
    /\ store = [Only("svc1", "sled", "none") EXCEPT ![Stdio] = "remote"]
    /\ cell = store
    /\ binary = TRUE
    /\ spawnedBy = [s \in Svc |-> IF s = "svc1" THEN Operator ELSE "none"]
    /\ svcBackend \in Backends

(***************************************************************************)
(* Specifications.                                                         *)
(***************************************************************************)
\* front ends, owner services and the desktop's ServiceManager
Init == CoordInit /\ ProbeQuiet /\ MonQuiet /\ DataQuiet /\ StdioQuiet

Next == CoordNext

Spec == Init /\ [][Next]_vars

\* the two probes on arbitrary responses
InitProbe == CoordInit /\ binary /\ ProbeInit /\ MonQuiet /\ DataQuiet /\ StdioQuiet

NextProbe == ProbeNext

SpecProbe == InitProbe /\ [][NextProbe]_vars

\* the PowerManager, its ServiceManager, the owner services and one
\* front end (the stdio bridge) that may take the sled lock
MonWorld ==
    \/ Launch(Stdio)
    \/ Exit(Stdio)
    \/ BuildProbe(Stdio)
    \/ BuildOpen(Stdio)
    \/ \E b \in BOOLEAN : SetBinary(b)
    \/ \E s \in Svc : BootStep(s)
    \/ \E c \in {Mon, Res} : StartStep(c)

MonHandlers ==
    \/ MonitorStep
    \/ ResumeStep
    \/ on_suspend
    \/ mark_service_running
    \/ mark_service_stopped

InitMon == CoordInit /\ ProbeQuiet /\ MonInit /\ DataQuiet /\ StdioQuiet

NextMon ==
    \/ MonWorld
    \/ MonHandlers
    \/ \E s \in Svc : Crash(s)

SpecMon == InitMon /\ [][NextMon]_vars

\* the same with the scheduling the code relies on: the monitor thread,
\* each start() call and each spawned mcp_service keep running, and an
\* mcp_service is killed only while it serves
NextMonLive ==
    \/ MonWorld
    \/ MonHandlers
    \/ \E s \in Svc : CrashUp(s)

SpecMonLive ==
    /\ InitMon
    /\ [][NextMonLive]_vars
    /\ WF_vars(MonitorStep)
    /\ \A c \in {Mon, Res} : WF_vars(StartStep(c))
    /\ \A s \in Svc : WF_vars(BootStep(s))

\* the PowerManager with every power event and stop()
NextPower ==
    \/ MonWorld
    \/ MonHandlers
    \/ BatteryLow
    \/ PowerSourceChange
    \/ manager_stop
    \/ \E s \in Svc : Crash(s)

SpecPower == InitMon /\ [][NextPower]_vars

\* the owner services on their own: started by hand, coming up, killed
SvcWorld ==
    \/ \E s \in Svc : OperatorStart(s)
    \/ \E s \in Svc : BootStep(s)
    \/ \E s \in Svc : Crash(s)

\* no PowerManager yet, any state file
InitState ==
    /\ CoordInit
    /\ ProbeQuiet
    /\ DataQuiet
    /\ StdioQuiet
    /\ stateFile \in FileKinds
    /\ writable \in BOOLEAN
    /\ saving = [t \in Threads |-> "none"]
    /\ desired = "Unknown"
    /\ mpc = "none"
    /\ mseen = "none"
    /\ rpc = "idle"
    /\ rseen = "none"

\* the desired state and its file across constructions of the PowerManager
NextState ==
    \/ SvcWorld
    \/ \E b \in BOOLEAN : SetWritable(b)
    \/ PowerManagerNew
    \/ HostExit
    \/ on_suspend
    \/ mark_service_running
    \/ mark_service_stopped

SpecState == InitState /\ [][NextState]_vars

\* sleep and resume: an owner that the monitor's ServiceManager spawned is
\* serving and the state file says "running" when the PowerManager is
\* constructed; the owner may be killed; Suspend and Resume events arrive
\* at any time; nothing else writes the desired state
InitSleep ==
    /\ pc = Only("svc1", "running", "off")
    /\ mode = Only("svc1", "owner", "none")
    /\ engine = Only("svc1", TRUE, FALSE)
    /\ store = Only("svc1", "sled", "none")
    /\ cell = store
    /\ config = "simple"
    /\ active = config
    /\ binary = TRUE
    /\ spc = [c \in Callers |-> "idle"]
    /\ sres = [c \in Callers |-> "none"]
    /\ spawnedBy = [s \in Svc |-> IF s = "svc1" THEN Monitor ELSE "none"]
    /\ stops = 0
    /\ MonInit
    /\ stateFile = "running"
    /\ ProbeQuiet
    /\ DataQuiet
    /\ StdioQuiet

NextSleep ==
    \/ StartMonitoringRead
    \/ StartMonitoringProbe
    \/ StartMonitoringSpawn
    \/ LoopRead
    \/ LoopProbe
    \/ LoopStart
    \/ LoopAfterStart
    \/ ResumeRead
    \/ ResumeProbe
    \/ ResumeAfterStart
    \/ on_suspend
    \/ \E c \in {Mon, Res} : StartCheck(c)
    \/ \E c \in {Mon, Res} : StartSpawn(c)
    \/ \E c \in {Mon, Res} : StartVerify(c)
    \/ \E s \in Svc : BuildProbe(s)
    \/ \E s \in Svc : BuildOpen(s)
    \/ \E s \in Svc : Bind(s)
    \/ \E s \in Svc : CrashUp(s)

\* the monitor thread, the Resume handler once it runs, each start() call
\* and each spawned mcp_service keep running
SpecSleep ==
    /\ InitSleep
    /\ [][NextSleep]_vars
    /\ WF_vars(MonitorStep)
    /\ WF_vars(ResumeProbe \/ ResumeAfterStart)
    /\ \A c \in {Mon, Res} : WF_vars(StartStep(c))
    /\ \A s \in Svc : WF_vars(BootStep(s))

\* the three handlers that write the desired state, run by several
\* threads of a process with a writable data directory
NextSave ==
    \/ SvcWorld
    \/ \E t \in Threads : OnSuspendStore(t)
    \/ \E t \in Threads : MarkRunningStore(t)
    \/ \E t \in Threads : MarkStoppedStore(t)
    \/ \E t \in Threads : save_state(t)

SpecSave == InitMon /\ [][NextSave]_vars

\* the Suspend handler alone: a first run (no state recorded yet), the
\* owner coming and going
InitSuspend ==
    /\ InitState
    /\ stateFile \in {"absent", "corrupt"}

NextSuspend ==
    \/ SvcWorld
    \/ \E b \in BOOLEAN : SetWritable(b)
    \/ PowerManagerNew
    \/ on_suspend

SpecSuspend == InitSuspend /\ [][NextSuspend]_vars

\* the desktop's ingest, search, history and health operations while the
\* embedding backend is swapped
InitIngest == DataInit /\ ProbeQuiet /\ MonQuiet /\ StdioQuiet

NextIngest ==
    \/ \E p \in Payloads : ingest_context(p)
    \/ \E q \in PromptInputs : search_contexts(SearchRequest(q, NoFilters, 8))
    \/ \E a \in HistoryArgs : recent_contexts(a)
    \/ list_projects
    \/ health_command
    \/ RunIngest
    \/ RunSearch
    \/ RunHistory
    \/ RunProjects
    \/ RunHealth
    \/ CommandReturns
    \/ \E b \in Backends : set_embedding_backend(b)

SpecIngest == InitIngest /\ [][NextIngest]_vars

\* searches of the desktop over stores of several shapes
InitSearch ==
    /\ Serving
    /\ contexts \in SeedStores
    /\ issued = {r.id : r \in contexts}
    /\ ProbeQuiet
    /\ MonQuiet
    /\ StdioQuiet

NextSearch ==
    \/ \E q \in Queries : search_contexts(q)
    \/ RunSearch
    \/ CommandReturns
    \/ \E b \in Backends : set_embedding_backend(b)

SpecSearch == InitSearch /\ [][NextSearch]_vars

\* listings of the desktop over stores of several sizes
InitHistory ==
    /\ Serving
    /\ contexts \in RecentStores
    /\ issued = {r.id : r \in contexts}
    /\ ProbeQuiet
    /\ MonQuiet
    /\ StdioQuiet

NextHistory ==
    \/ \E a \in HistoryQueries : recent_contexts(a)
    \/ RunHistory
    \/ CommandReturns
    \/ \E b \in Backends : set_embedding_backend(b)

SpecHistory == InitHistory /\ [][NextHistory]_vars

\* the desktop's operations while owner services are killed and started
\* again: in proxy mode the owner is at times unreachable
InitOutage ==
    /\ Serving
    /\ contexts \in {{}, FourRecords}
    /\ issued = {r.id : r \in contexts}
    /\ ProbeQuiet
    /\ MonQuiet
    /\ StdioQuiet

NextOutage ==
    \/ ingest_context(BasePayload)
    \/ \E q \in PromptInputs : search_contexts(SearchRequest(q, NoFilters, 8))
    \/ \E a \in HistoryArgs : recent_contexts(a)
    \/ list_projects
    \/ health_command
    \/ RunIngest
    \/ RunSearch
    \/ RunHistory
    \/ RunProjects
    \/ RunHealth
    \/ CommandReturns
    \/ \E s \in Svc : CrashUp(s)
    \/ \E s \in Svc : OperatorStart(s)
    \/ \E s \in Svc : BootStep(s)

SpecOutage == InitOutage /\ [][NextOutage]_vars

\* a client of the owner service's REST routes
RestQueries ==
    {SearchRequest(q, NoFilters, 8) :
        q \in {Text(2, TRUE, <<>>), Text(3, FALSE, <<0>>), Text(3, FALSE, <<>>)}}

InitRest ==
    /\ Serving
    /\ ServingProxy
    /\ contexts \in SeedStores \cup {{Stored(SeedA, "simple", 1, 1)}}
    /\ issued = {r.id : r \in contexts}
    /\ ProbeQuiet
    /\ MonQuiet
    /\ StdioQuiet

NextRest ==
    \/ \E p \in Payloads : post_contexts(p)
    \/ \E q \in RestQueries : post_search(q)
    \/ \E a \in HistoryQueries : get_contexts(a)
    \/ save_context
    \/ service_search_contexts
    \/ list_contexts
    \/ CommandReturns

SpecRest == InitRest /\ [][NextRest]_vars

\* the desktop ingesting and searching while its embedding backend is
\* swapped by requests of every kind
PunctuationOnly == [BasePayload EXCEPT !.summary = Text(3, FALSE, <<>>),
                                       !.body = Text(9, FALSE, <<>>)]

InitSwap == DataInit /\ ProbeQuiet /\ MonQuiet /\ StdioQuiet

NextSwap ==
    \/ \E p \in {BasePayload, PunctuationOnly} : ingest_context(p)
    \/ search_contexts(SearchRequest(Text(3, FALSE, <<0>>), NoFilters, 8))
    \/ \E a \in HistoryArgs : recent_contexts(a)
    \/ RunIngest
    \/ RunSearch
    \/ RunHistory
    \/ CommandReturns
    \/ \E id \in BackendIds, o \in Overrides, written \in BOOLEAN :
            set_embedding_backend_payload(id, o, written)

SpecSwap == InitSwap /\ [][NextSwap]_vars

\* the owner desktop ingesting under project and ide strings of several
\* shapes (path separators, a colon, surrounding blanks, line breaks) and
\* listing and searching by the same strings
ProjectStrings ==
    {<<"p">>, <<"a", "/", "b">>, <<"c", ":">>, <<"\\", "d">>, <<" ", "p", " ">>,
     <<"p", "\n", "x">>, <<"\n", "f">>}

IdeStrings == {<<"v">>, <<"\r", "\n", "v">>}

NamedPayloads ==
    {[BasePayload EXCEPT !.project = x, !.ide = y] : x \in ProjectStrings, y \in IdeStrings}

InitNames ==
    /\ DataInit
    /\ mode[Desktop] = "owner"
    /\ ProbeQuiet
    /\ MonQuiet
    /\ StdioQuiet

NextNames ==
    \/ \E p \in NamedPayloads : ingest_context(p)
    \/ \E x \in ProjectStrings :
            search_contexts(SearchRequest(Text(3, FALSE, <<0>>),
                                          [NoFilters EXCEPT !.project = Some(x)], 8))
    \/ \E x \in ProjectStrings : recent_contexts([project |-> Some(x), limit |-> None])
    \/ RunIngest
    \/ RunSearch
    \/ RunHistory
    \/ CommandReturns

SpecNames == InitNames /\ [][NextNames]_vars

\* the stdio bridge serving the lines of one client
InitStdio ==
    /\ config = "simple"
    /\ active = config
    /\ spc = [c \in Callers |-> "idle"]
    /\ sres = [c \in Callers |-> "none"]
    /\ stops = 0
    /\ BridgeLocal \/ BridgeProxy
    /\ contexts \in {{}, {Stored(SeedA, "simple", 1, 1), Stored(SeedB, "fastembed", 2, 2)}}
    /\ issued = {r.id : r \in contexts}
    /\ flight = NoFlight
    /\ out = NoOut
    /\ ProbeQuiet
    /\ MonQuiet
    /\ stdin \in LinesUpTo(MaxLines)
    /\ stdout = <<>>
    /\ lpc = "read"
    /\ line = NoLine
    /\ taken = <<>>
    /\ pipe = TRUE

NextStdio ==
    \/ ReadEof
    \/ ReadFails
    \/ ReadBlank
    \/ ReadLine
    \/ ParseFails
    \/ Respond
    \/ ClientCloses

SpecStdio == InitStdio /\ [][NextStdio]_vars

(***************************************************************************)
(* Claims about process coordination, checked under Spec.                  *)
(***************************************************************************)
\* a process that build_environment has finished in (for mcp_service: also
\* while it binds its port)
Started(p) == pc[p] \in {"bind", "running"}

\* h serves the configured host/port: it is the mcp_service process
Serves(h) == h \in Svc

\* C1: at most one process holds the sled store open, and every other
\* running client process is in proxy mode against that holder.
C1_SingleOwnerOthersProxy ==
    /\ Cardinality(Holders) <= 1
    /\ \A h \in Holders : \A p \in Clients \ {h} :
           pc[p] = "running" => (mode[p] = "proxy" /\ Serves(h))

\* C2: build_environment takes the proxy branch (Remote Proxy store, sled
\* never opened by this process) exactly when the health probe succeeds
\* and the owner branch (SledVectorStore::open) exactly when it fails.
C2_ModeByProbe ==
    /\ [](\A p \in Proc :
            /\ mode[p] = "proxy" => (~engine[p] /\ store[p] = "remote" /\ cell[p] = "remote")
            /\ (mode[p] = "owner" /\ Started(p)) => (engine[p] /\ store[p] = "sled" /\ cell[p] = "sled")
            /\ engine[p] => mode[p] = "owner")
    /\ [][\A p \in Proc :
            (pc[p] = "build" /\ pc'[p] \notin {"build", "off"}) =>
                /\ (mode'[p] = "proxy") <=> check_service_availability(Health)
                /\ (mode'[p] = "owner") <=> ~check_service_availability(Health)
                /\ mode'[p] = "proxy" => pc'[p] = AfterBuild(p)
                /\ mode'[p] = "owner" => pc'[p] = "open"]_vars

C2_Witness ==
    \E p, q \in Proc :
        /\ pc[p] = "running" /\ mode[p] = "proxy"
        /\ pc[q] = "running" /\ mode[q] = "owner" /\ engine[q]

\* C3: a front end that has finished starting leaves the health probe
\* succeeding: it found the owner, or it created one.
C3_FrontEndEnsuresOwner ==
    [][\A p \in Clients :
        (pc[p] # "running" /\ pc'[p] = "running") => check_service_availability(Health')]_vars

\* C4: once started, a process keeps its Storage Contract implementation:
\* no step (set_embedding_backend, owner crash, owner restart, ...) changes
\* the store of its active service, and a proxy never opens the sled store.
C4_ModeFixed ==
    [][\A p \in Proc :
        (Started(p) /\ Started(p)') =>
            /\ mode'[p] = mode[p]
            /\ store'[p] = store[p]
            /\ cell'[p] = cell[p]
            /\ engine'[p] = engine[p]]_vars

C4_Witness ==
    /\ pc[Desktop] = "running"
    /\ cell[Desktop] = "remote"
    /\ config = "fastembed"
    /\ \A s \in Svc : pc[s] = "off"

\* C5: start() called while the owner answers healthy returns Ok without
\* spawning: no process is created or changed.
C5_StartIdempotent ==
    [][\A c \in Callers :
        (spc[c] = "check" /\ spc'[c] \notin {"check", "idle"} /\ Health = health_check) =>
            /\ spc'[c] = "done"
            /\ sres'[c] = "ok_noop"
            /\ pc' = pc
            /\ spawnedBy' = spawnedBy]_vars

C5_Witness ==
    \E c \in Callers : sres[c] = "ok_noop" /\ \E s \in Svc : pc[s] = "running"

\* C6: with no owner binary to be found, start() returns an error and
\* spawns nothing; the desktop shell goes on to build_environment and
\* takes its branch by the health probe alone.
C6_MissingBinaryNotFatal ==
    /\ [][\A c \in Callers :
            (spc[c] = "find" /\ ~binary /\ spc'[c] \notin {"find", "idle"}) =>
                /\ spc'[c] = "done"
                /\ sres'[c] = "err_nobinary"
                /\ pc' = pc
                /\ spawnedBy' = spawnedBy]_vars
    /\ [][(pc[Desktop] = "starting" /\ sres[TryRun] = "err_nobinary" /\ pc'[Desktop] # "starting") =>
                pc'[Desktop] = "build"]_vars
    /\ [][(pc[Desktop] = "build" /\ pc'[Desktop] # "build") =>
                mode'[Desktop] = IF check_service_availability(Health) THEN "proxy" ELSE "owner"]_vars

C6_Witness ==
    /\ pc[Desktop] = "starting"
    /\ sres[TryRun] = "err_nobinary"
    /\ \A s \in Svc : pc[s] = "off"

C8_IsRunningIffHealthyBody ==
    probed =>
        /\ isr <=> (endpoint.status = 200 /\ endpoint.json /\ endpoint.state = "healthy")
        /\ isr <=> csa

(***************************************************************************)
(* Claims about the Availability Monitor, checked under SpecMon and        *)
(* SpecMonLive.                                                            *)
(***************************************************************************)
\* the desired state a caller of start() read before it decided to call
Seen(c) == IF c = Mon THEN mseen ELSE rseen

\* the owner answers the health probe
OwnerUp == Health = health_check

\* a front end in local mode holds the sled lock
FrontEndHolds == \E c \in Clients : engine[c]

\* a spawned mcp_service that has not finished starting
Booting(s) == pc[s] \in {"build", "open", "bind"}

\* C9 as stated: at every start() call of the monitor (start_monitoring,
\* health loop, Resume handler) the desired state is Running.
C9_NoStartWhileNotRunning ==
    [][\A c \in {Mon, Res} :
        (spc[c] = "idle" /\ spc'[c] = "check") => desired = "Running"]_vars

\* C9 as amended: the monitor calls start() only after reading the desired
\* state as Running; having read Stopped or Unknown, start_monitoring, the
\* loop iteration and the Resume handler go no further.
C9_NoStartUnlessReadRunning ==
    /\ [][\A c \in {Mon, Res} :
            (spc[c] = "idle" /\ spc'[c] = "check") => Seen(c) = "Running"]_vars
    /\ [](mseen \in {"Stopped", "Unknown"} => mpc = "loop_sleep")
    /\ [](rseen \in {"Stopped", "Unknown"} => rpc = "idle")

C9_Witness ==
    /\ desired = "Stopped"
    /\ mseen = "Stopped"
    /\ rseen = "Stopped"
    /\ mpc = "loop_sleep"
    /\ ~OwnerUp
    /\ binary
    /\ \A c \in Callers : spc[c] = "idle"
    /\ \A s \in Svc : pc[s] = "off"

C12_ResumeStartsIffDown ==
    /\ [][ResumeProbe =>
            /\ spc'[Res] = "check" <=> ~OwnerUp
            /\ OwnerUp => (rpc' = "idle" /\ spc' = spc /\ pc' = pc)]_vars
    /\ [][ResumeStep => (desired' = desired /\ stateFile' = stateFile)]_vars
    /\ [][(spc[Res] = "idle" /\ spc'[Res] = "check") => ResumeProbe]_vars

\* the handler found the owner down after the delay and is inside start()
C12_Witness ==
    /\ rpc = "start"
    /\ rseen = "Running"
    /\ spc[Res] = "find"
    /\ ~OwnerUp

\* a handler that saves the desired state
Saves == on_suspend \/ mark_service_running \/ mark_service_stopped

\* C13: a newly constructed PowerManager starts with the state found in
\* the file: Running or Stopped for the strings the saving handlers write,
\* Unknown for a missing file, text that is not JSON, JSON without a state
\* string, or any other string; construction succeeds whatever the file
\* holds.  The file is written only by mark_service_running,
\* mark_service_stopped and the Suspend handler, and what they write is the
\* desired state they set.
C13_LoadsPersistedState ==
    /\ [][PowerManagerNew =>
            /\ mpc' = "new"
            /\ stateFile = "running" => desired' = "Running"
            /\ stateFile = "stopped" => desired' = "Stopped"
            /\ stateFile \in {"absent", "corrupt", "nostate", "paused", "unknown"}
                   => desired' = "Unknown"]_vars
    /\ [][stateFile' # stateFile =>
            /\ Saves
            /\ desired' = "Running" => stateFile' = "running"
            /\ desired' = "Stopped" => stateFile' = "stopped"
            /\ desired' \in {"Running", "Stopped"}]_vars
    /\ [](~Constructed => ENABLED PowerManagerNew)

\* a PowerManager constructed over a state file that is not JSON
C13_Witness ==
    /\ mpc = "new"
    /\ stateFile = "corrupt"
    /\ desired = "Unknown"

(***************************************************************************)
(* C14: hot-swapping the embedding backend is atomic for readers: every    *)
(* ingest, search, history or health operation runs entirely against the   *)
(* one (embedder, store, model label) triple that was in the service cell  *)
(* when the operation took its handle, even when set_embedding_backend     *)
(* replaces the cell meanwhile; no operation calls the engine of one       *)
(* triple with the model label of another.                                 *)
(***************************************************************************)
C14_OperationUsesItsHandle ==
    /\ [][TakeStep => flight'.h = Some(CellService)]_vars
    /\ [][(\E b \in Backends : set_embedding_backend(b)) => flight' = flight]_vars
    /\ [][RunStep =>
            /\ out'.h = flight.h
            /\ out'.embedWith # None =>
                    out'.embedWith[1] = [engine |-> flight.h[1].embedder,
                                         model |-> flight.h[1].label]
            /\ out'.storeWith # None => out'.storeWith[1] = flight.h[1].store
            /\ out'.op = "health" /\ out'.err = "Ok" => out'.label = flight.h[1].label
            /\ out'.op = "ingest" /\ out'.storeWith = Some("sled") =>
                    \A r \in contexts' \ contexts :
                        /\ r.model = flight.h[1].label
                        /\ Len(r.vector) = Dims(flight.h[1].embedder)
            /\ out'.op = "ingest" => out'.err # "Embedding"]_vars
    /\ [](out.embedWith # None => out.embedWith[1].model = ModelName(out.embedWith[1].engine))

\* an ingest stored a record with the embedder and label of its handle
\* although the cell was replaced while it ran
C14_Witness ==
    /\ out.op = "ingest"
    /\ out.err = "Ok"
    /\ out.swapped
    /\ out.embedWith = Some([engine |-> "simple", model |-> ModelName("simple")])
    /\ \E r \in contexts : r.id = out.summary[1].id /\ r.model = ModelName("simple")

(***************************************************************************)
(* C15: a successful ingest performs exactly one durable write, and the    *)
(* summary it returns is the projection of the record that was written:    *)
(* the returned id is the id under which the record is stored (and under   *)
(* which search and history return it), whichever store is active.         *)
(***************************************************************************)
C15_ReturnedSummaryIsStoredRecord ==
    [][RunIngest /\ out'.err = "Ok" =>
            /\ Cardinality(contexts' \ contexts) = 1
            /\ \E r \in contexts' \ contexts :
                /\ r.id = out'.summary[1].id
                /\ as_summary(r) = out'.summary[1]]_vars

(***************************************************************************)
(* C16: a rejected request has no effect.  An ingest with an empty         *)
(* project, an empty ide, an empty or over-640-character summary, an empty *)
(* or over-16,000-character body, more than 12 tags or an "other" kind     *)
(* with an empty label, and a search with an empty or whitespace-only      *)
(* prompt, each return a Validation or LimitExceeded error without         *)
(* invoking the embedder or the store, and leave the records unchanged.    *)
(***************************************************************************)
Faulty(p) ==
    \/ trim(p.project) = <<>>
    \/ trim(p.ide) = <<>>
    \/ p.summary.blank
    \/ p.summary.chars > 640
    \/ p.body.blank
    \/ p.body.chars > 16000
    \/ Len(p.tags) > 12
    \/ p.kind.variant = "Other" /\ trim(p.kind.label) = <<>>

Rejected ==
    /\ out'.err \in {"Validation", "LimitExceeded"}
    /\ out'.embedWith = None
    /\ out'.storeWith = None
    /\ contexts' = contexts
    /\ issued' = issued

C16_RejectedRequestHasNoEffect ==
    /\ [][RunIngest /\ Faulty(flight.arg[1]) => Rejected]_vars
    /\ [][RunSearch /\ flight.arg[1].prompt.blank => Rejected]_vars

\* an over-long summary was refused while the store held a record
C16_Witness ==
    /\ out.op = "ingest"
    /\ out.err = "LimitExceeded"
    /\ out.embedWith = None
    /\ out.storeWith = None
    /\ contexts # {}

(***************************************************************************)
(* C17: ingest reports an empty or over-length project, ide, summary or    *)
(* body as a Validation error, and more than 12 tags or an empty           *)
(* custom-kind label as a LimitExceeded error.                             *)
(***************************************************************************)
FieldFault(p) ==
    \/ trim(p.project) = <<>>
    \/ trim(p.ide) = <<>>
    \/ p.summary.blank
    \/ p.summary.chars > 640
    \/ p.body.blank
    \/ p.body.chars > 16000

CountFault(p) ==
    \/ Len(p.tags) > 12
    \/ p.kind.variant = "Other" /\ trim(p.kind.label) = <<>>

C17_FieldFaultsValidationCountFaultsLimit ==
    [][RunIngest =>
            /\ FieldFault(flight.arg[1]) => out'.err = "Validation"
            /\ ~FieldFault(flight.arg[1]) /\ CountFault(flight.arg[1]) =>
                    out'.err = "LimitExceeded"]_vars

\* C17 as the code has it: a missing value (empty project, ide, summary,
\* body or custom-kind label) is a Validation error, an exceeded bound
\* (summary over 640 characters, body over 16,000, more than 12 tags) is a
\* LimitExceeded error; the checks run in the order project, ide, summary,
\* body, tags, kind, emptiness before length, and the first that fails
\* decides; the length of project and ide is not checked
FirstFault(p) ==
    IF trim(p.project) = <<>> \/ trim(p.ide) = <<>> \/ p.summary.blank THEN "missing"
    ELSE IF p.summary.chars > 640 THEN "exceeded"
    ELSE IF p.body.blank THEN "missing"
    ELSE IF p.body.chars > 16000 \/ Len(p.tags) > 12 THEN "exceeded"
    ELSE IF p.kind.variant = "Other" /\ trim(p.kind.label) = <<>> THEN "missing"
    ELSE "none"

C17_MissingIsValidationExceededIsLimit ==
    [][RunIngest =>
            /\ FirstFault(flight.arg[1]) = "missing" => out'.err = "Validation"
            /\ FirstFault(flight.arg[1]) = "exceeded" => out'.err = "LimitExceeded"
            /\ FirstFault(flight.arg[1]) = "none" =>
                    out'.err \notin {"Validation", "LimitExceeded"}]_vars

\* an ingest whose only fault was a summary of 641 characters was refused
\* with LimitExceeded
C17_Witness ==
    /\ out.op = "ingest"
    /\ out.err = "LimitExceeded"
    /\ out.arg # None
    /\ out.arg[1].summary.chars = 641
    /\ ~out.arg[1].body.blank
    /\ out.arg[1].kind.variant # "Other"

(***************************************************************************)
(* C18: for every accepted ingest payload the stored and returned tags     *)
(* contain no duplicates, no empty strings and at most 12 entries, each    *)
(* lower-cased with internal whitespace collapsed to hyphens; the tags     *)
(* ["Bug Fix", "bug fix", ""] are stored as ["bug-fix"].                   *)
(***************************************************************************)
WellFormedTags(t) ==
    /\ \A i, j \in 1..Len(t) : t[i] = t[j] => i = j
    /\ \A i \in 1..Len(t) : t[i] # <<>>
    /\ Len(t) <= 12
    /\ \A i \in 1..Len(t) : \A k \in 1..Len(t[i]) :
            t[i][k] \notin {"B", "F", " ", "\t", "\n"}

C18_TagsAreANormalisedSet ==
    [][RunIngest /\ out'.err = "Ok" =>
            /\ WellFormedTags(out'.summary[1].tags)
            /\ \A r \in contexts' \ contexts : WellFormedTags(r.tags)
            /\ flight.arg[1].tags = <<BugFixUpper, BugFixLower, <<>>>> =>
                    /\ out'.summary[1].tags = <<<<"b", "u", "g", "-", "f", "i", "x">>>>
                    /\ \A r \in contexts' \ contexts :
                            r.tags = <<<<"b", "u", "g", "-", "f", "i", "x">>>>]_vars

(***************************************************************************)
(* C19: for any set of persisted records and any non-empty prompt, the     *)
(* results of search are sorted by descending similarity score, number at  *)
(* most clamp(limit, 1, 32), and are exactly the highest-scoring records   *)
(* among those that pass the filters.                                      *)
(***************************************************************************)
\* the query vector of the search in flight, the records that pass its
\* filters, and their cosine with the query
QueryVector == embed(flight.h[1].embedder, flight.h[1].label, flight.arg[1].prompt).vector

Passing == {r \in contexts : matches_filters(r, flight.arg[1].filters)}

CosineOf(r) == cosine_similarity(QueryVector, r.vector).score

Allowed(n) == IF n < 1 THEN 1 ELSE IF n > 32 THEN 32 ELSE n

C19_ResultsAreTheTopScoresSorted ==
    [][RunSearch /\ out'.err = "Ok" =>
        LET rows == out'.rows
            n == Allowed(flight.arg[1].limit)
        IN  /\ \A i, j \in 1..Len(rows) : i < j => ~ScoreLess(rows[i].score, rows[j].score)
            /\ Len(rows) <= n
            /\ Len(rows) = Min(n, Cardinality(Passing))
            /\ \A i, j \in 1..Len(rows) : rows[i].id = rows[j].id => i = j
            /\ \A i \in 1..Len(rows) :
                    \E r \in Passing : r.id = rows[i].id /\ rows[i].score = CosineOf(r)
            /\ \A r \in Passing :
                    (\A i \in 1..Len(rows) : rows[i].id # r.id) =>
                        \A i \in 1..Len(rows) : ~ScoreLess(rows[i].score, CosineOf(r))]_vars

\* a search with limit 40 over 34 records returned 32 rows, the first
\* scoring higher than the last
C19_Witness ==
    /\ out.op = "search"
    /\ out.err = "Ok"
    /\ out.arg[1].limit = 40
    /\ Cardinality(contexts) > 32
    /\ Len(out.rows) = 32
    /\ ScoreLess(out.rows[32].score, out.rows[1].score)

(***************************************************************************)
(* C20: no search result violates the supplied filters.  For every         *)
(* combination of the optional project, kind, tag and ide predicates of    *)
(* the request, each returned record matches every predicate that is       *)
(* present (AND semantics), whichever store serves the search.             *)
(***************************************************************************)
C20_ResultsMatchEveryPresentFilter ==
    [][RunSearch /\ out'.err = "Ok" =>
        LET f == flight.arg[1].filters IN
        \A i \in 1..Len(out'.rows) :
            \E r \in contexts :
                /\ r.id = out'.rows[i].id
                /\ f.project # None => r.project = f.project[1] /\ out'.rows[i].project = f.project[1]
                /\ f.kind # None => r.kind = f.kind[1] /\ out'.rows[i].kind = f.kind[1]
                /\ f.tag # None => f.tag[1] \in {r.tags[k] : k \in 1..Len(r.tags)}
                /\ f.tag # None =>
                        f.tag[1] \in {out'.rows[i].tags[k] : k \in 1..Len(out'.rows[i].tags)}
                /\ f.ide # None => r.ide = f.ide[1]]_vars

\* a search with all four predicates returned a record and left out three
\* that each fail the ide, the kind or the project predicate
C20_Witness ==
    /\ out.op = "search"
    /\ out.err = "Ok"
    /\ out.arg[1].filters =
            [project |-> Some(<<"p">>), kind |-> Some(Kind("FixHistory", <<>>)),
             tag |-> Some(<<"x">>), ide |-> Some(<<"v">>)]
    /\ Len(out.rows) = 1
    /\ Cardinality(contexts) = 4
    /\ out.arg[1].limit = 40

\* the most entries a listing asked for with this limit may return
HistoryCap(limit) ==
    LET asked == IF limit = None THEN 8 ELSE limit[1]
    IN  IF asked < 1 THEN 1 ELSE IF asked > 50 THEN 50 ELSE asked

\* C21: a history that succeeds returns at most clamp(limit, 1, 50) entries
\* (the default limit of 8 when none is given), each no older than the
\* next, and when a project is given only entries of that project.
C21_HistoryIsCappedSortedAndOfTheProject ==
    [][RunHistory /\ out'.err = "Ok" =>
        LET items == out'.items
            a == out'.arg[1]
        IN  /\ Len(items) <= HistoryCap(a.limit)
            /\ \A i \in 1..(Len(items) - 1) : items[i].created_at >= items[i + 1].created_at
            /\ a.project # None => \A i \in 1..Len(items) : items[i].project = a.project[1]]_vars

\* a listing of one project with a limit above 50 over a store holding more
\* than 50 records of it and records of another project has returned 50
C21_Witness ==
    /\ out.op = "history"
    /\ out.err = "Ok"
    /\ out.arg[1] = [project |-> Some(<<"p">>), limit |-> Some(60)]
    /\ Len(out.items) = 50
    /\ \E r \in contexts : r.project # <<"p">>
    /\ Cardinality({r \in contexts : r.project = <<"p">>}) > 50

\* C22: projects() returns each project of the persisted records exactly
\* once and nothing else, whichever store the service holds.
C22_ProjectsAreTheDistinctProjects ==
    [][RunProjects /\ out'.err = "Ok" =>
        LET names == out'.names IN
        /\ {names[i] : i \in 1..Len(names)} = {r.project : r \in contexts}
        /\ \A i, j \in 1..Len(names) : names[i] = names[j] => i = j]_vars

\* C24: a search run by a proxy-mode service ends as the same search run
\* on the owner's sled store with the same embedder: the same outcome and
\* the same rows with the same scores in the same order.
C24_ProxySearchEqualsOwnerSearch ==
    [][RunSearch /\ Handle.store = "remote" =>
        LET direct == search([Handle EXCEPT !.store = "sled"], flight.arg[1])
        IN  /\ out'.err = direct.err
            /\ out'.rows = direct.rows]_vars

\* C23: health() never ends in an error: it returns a status, with ok set
\* exactly when the ping of its store succeeded.
C23_HealthAlwaysReturnsAStatus ==
    [][RunHealth =>
        /\ out'.err = "Ok"
        /\ out'.ok <=> (Handle.store = "sled" \/ is_running(Health))]_vars

\* the owner does not answer, or answers the request of the operation in
\* flight with an error status (the search request it is sent has an empty
\* prompt)
OwnerRefuses ==
    \/ ~UreqOk(Health)
    \/ /\ flight.op = "search"
       /\ search(OwnerService,
                 SearchRequest(Text(0, TRUE, <<>>), NoFilters,
                               clamp(flight.arg[1].limit, 1, 32))).err # "Ok"

\* C25: when the owner is unreachable or answers with an error status, an
\* ingest, search, history or health of a proxy-mode service that reaches
\* its store ends in a Storage error after one request to the owner.
C25_ProxyFailsWithStorageAfterOneAttempt ==
    [][/\ RunIngest \/ RunSearch \/ RunHistory \/ RunHealth
       /\ Handle.store = "remote"
       /\ out'.storeWith # None
       /\ OwnerRefuses
       => /\ out'.err = "Storage"
          /\ out'.requests = 1
          /\ contexts' = contexts]_vars

\* a listing of a proxy-mode desktop has failed while no owner was up
C25_Witness ==
    /\ out.op = "history"
    /\ out.h[1].store = "remote"
    /\ out.err = "Storage"
    /\ out.requests = 1
    /\ ~UreqOk(Health)

\* the errors a caller brings about, and the faults of the server
CallerMistakes == {"Validation", "LimitExceeded", "NotFound"}

ServerFaults == {"Storage", "Embedding", "Other"}

\* C26: a REST handler of the owner answers a Validation, LimitExceeded
\* or NotFound error of the service with a 4xx status and a Storage,
\* Embedding or Other error with a 5xx status.
C26_RestStatusTellsMistakeFromFault ==
    [][save_context \/ list_contexts \/ service_search_contexts =>
        /\ out'.err \in CallerMistakes => out'.status \in 400..499
        /\ out'.err \in ServerFaults => out'.status \in 500..599]_vars

KnownMethods == {"initialize", "tools/list", "tools/call"}

KnownTools == {"ingest_context", "search_contexts"}

\* C27: while the client reads, the bridge has written one response for
\* each non-blank line it has read, in the order read, except for the line
\* it is handling, and reads no line before the last one is answered; the
\* response to a JSON line carries the line's id (null when it has none),
\* with the method-not-found code for an unknown method and the
\* invalid-params code for a tools/call without params or of an unknown
\* tool.
C27_OneResponsePerRequestInOrder ==
    /\ pipe => Len(stdout) = Len(taken) - (IF lpc = "handle" THEN 1 ELSE 0)
    /\ Len(stdout) <= Len(taken)
    /\ \A i \in 1..Len(stdout) :
        LET request == taken[i]
            response == stdout[i]
        IN  request.form = "json" =>
            /\ response.id = IF request.id = None THEN "null" ELSE request.id[1]
            /\ request.method \notin KnownMethods => response.code = -32601
            /\ request.method = "tools/call" /\ request.params = None =>
                    response.code = -32602
            /\ /\ request.method = "tools/call"
               /\ request.params # None
               /\ request.params[1].name \notin KnownTools
               => response.code = -32602

\* the bridge has answered three requests and seen the end of input: one
\* of an unknown method, a tools/call without params and one of an unknown
\* tool
C27_Witness ==
    /\ pipe
    /\ lpc = "eof"
    /\ Len(stdout) = 3
    /\ taken[1].method = "resources/list" /\ stdout[1] = Response("2", -32601, "")
    /\ taken[2].method = "tools/call" /\ taken[2].params = None
    /\ stdout[2] = Response("1", -32602, "")
    /\ taken[3].method = "tools/call" /\ taken[3].params # None
    /\ taken[3].params[1].name = "delete_context"
    /\ stdout[3] = Response("2", -32602, "")

\* C28: the step that handles a line that is no JSON writes a parse error
\* (code -32700) when the client reads, and goes back to reading with the
\* later lines still to come; a blank line is dropped with nothing
\* written; the loop ends only at the end of input, when a read fails, or
\* when the response to a request cannot be written.
C28_MalformedAnsweredLoopGoesOn ==
    [][/\ lpc = "handle" /\ line.form = "malformed" /\ lpc' # lpc =>
            /\ lpc' = "read"
            /\ stdin' = stdin
            /\ stdout' = IF pipe THEN Append(stdout, Response("absent", -32700, ""))
                         ELSE stdout
       /\ lpc = "read" /\ stdin # <<>> /\ Head(stdin).form = "blank" /\ stdin' # stdin =>
            /\ lpc' = "read"
            /\ stdout' = stdout
       /\ lpc \in {"read", "handle"} /\ lpc' \notin {"read", "handle"} =>
            \/ lpc = "read" /\ lpc' = "eof" /\ stdin = <<>>
            \/ lpc = "read" /\ lpc' = "read_failed"
            \/ lpc = "handle" /\ lpc' = "write_failed" /\ line.form = "json" /\ ~pipe]_vars

\* the bridge has answered a line that is no JSON with a parse error and
\* the request after it with a result, and has seen the end of input
C28_Witness ==
    /\ lpc = "eof"
    /\ Len(taken) = 2
    /\ taken[1] = Malformed
    /\ taken[2].method = "tools/list"
    /\ stdout = <<Response("absent", -32700, ""), Response("2", 0, "")>>

\* C29: a search, history, projects or health leaves the records as they
\* are; every step keeps every record it finds; and the records change
\* only in the step of an ingest that succeeds, by one record under a key
\* no record had.
C29_StoreIsAppendOnly ==
    [][/\ RunSearch \/ RunHistory \/ RunProjects \/ RunHealth => contexts' = contexts
       /\ contexts \subseteq contexts'
       /\ contexts' # contexts =>
            /\ out'.op = "ingest"
            /\ out'.err = "Ok"
            /\ Cardinality(contexts' \ contexts) = 1
            /\ \A r \in contexts' \ contexts : \A s \in contexts : s.id # r.id]_vars

\* a search over two records has returned both and they are still there
C29_Witness ==
    /\ out.op = "search"
    /\ out.err = "Ok"
    /\ Len(out.rows) = 2
    /\ Cardinality(contexts) = 2
    /\ \A i \in 1..2 : \E r \in contexts : r.id = out.rows[i].id

\* C30: an ingest or search run by a proxy-mode service makes no call of
\* an embedding engine of its own process.
C30_ProxyNeverEmbedsLocally ==
    [][(RunIngest \/ RunSearch) /\ Handle.store = "remote" =>
        out'.embedWith = None]_vars

\* C31: the desired state, in memory and on disk, is changed only by the
\* Suspend handler and by mark_service_running / mark_service_stopped; the
\* health loop, the Resume handler, start_monitoring, BatteryLow and
\* PowerSourceChange events, and start() / stop() whatever they return,
\* leave both unchanged
DesiredWriters == on_suspend \/ mark_service_running \/ mark_service_stopped

DesiredReaders ==
    \/ MonitorStep
    \/ ResumeStep
    \/ BatteryLow
    \/ PowerSourceChange
    \/ manager_stop
    \/ \E c \in {Mon, Res} : StartStep(c)

C31_OnlySuspendAndMarksWriteDesired ==
    [][/\ (desired' # desired \/ stateFile' # stateFile) => DesiredWriters
       /\ DesiredReaders => UNCHANGED <<desired, stateFile>>]_vars

\* the Resume handler's start() has failed while the file and the memory
\* both say Running, and stop() has been called
C31_Witness ==
    /\ rpc = "start"
    /\ sres[Res] \in {"err_nobinary", "err_notup"}
    /\ stops > 0
    /\ desired = "Running"
    /\ stateFile = "running"

\* C33: a search over the sled tree is all-or-nothing: when a stored record
\* that passes the filters has a vector of another length than the query
\* vector, or the query vector or that record's vector is the zero vector,
\* the search returns an Embedding error and no rows; otherwise it returns
\* the rows, so a record the filters exclude never causes the error
IsZero(v) == \A i \in 1..Len(v) : v[i] = 0

Unscorable(r) ==
    \/ Len(r.vector) # Len(QueryVector)
    \/ IsZero(QueryVector)
    \/ IsZero(r.vector)

C33_SearchIsAllOrNothing ==
    [][/\ RunSearch
       /\ flight.h[1].store = "sled"
       /\ ~flight.arg[1].prompt.blank
       =>
       IF \E r \in Passing : Unscorable(r)
       THEN out'.err = "Embedding" /\ out'.rows = <<>>
       ELSE /\ out'.err = "Ok"
            /\ Len(out'.rows) = Min(Allowed(flight.arg[1].limit), Cardinality(Passing))]_vars

\* a search failed with an Embedding error although a record that passes
\* its filters could have been scored, and a record of another vector
\* length passes them too
C33_Witness ==
    /\ out.op = "search"
    /\ out.err = "Embedding"
    /\ out.rows = <<>>
    /\ out.storeWith = Some("sled")
    /\ LET q == embed(out.h[1].embedder, out.h[1].label, out.arg[1].prompt).vector
           pass == {r \in contexts : matches_filters(r, out.arg[1].filters)}
       IN  /\ \E r \in pass : cosine_similarity(q, r.vector).err = "Ok"
           /\ \E r \in pass : Len(r.vector) # Len(q)

\* C32: a search scores only records whose embedding was produced under
\* the model label of the query embedding: every row a search over the
\* sled tree returns belongs to a record of the query's model, also after
\* the backend was swapped between the ingest and the search
C32_SearchScoresOnlySameModel ==
    (out.op = "search" /\ out.err = "Ok" /\ out.storeWith = Some("sled")) =>
        \A i \in 1..Len(out.rows) :
            \A r \in contexts :
                r.id = out.rows[i].id => r.model = out.embedWith[1].model

\* C34: read-your-writes in the owner process: a history with no project
\* or the record's project, and a search whose filters the record passes,
\* include every record an ingest has stored, when the limit covers the
\* records that qualify
C34_ReadYourWrites ==
    [][/\ (RunHistory /\ flight.h[1].store = "sled") =>
            LET a == flight.arg[1]
                mine == {r \in contexts : a.project # None => r.project = a.project[1]}
            IN  Cardinality(mine) <= HistoryCap(a.limit) =>
                    \A r \in mine : \E i \in 1..Len(out'.items) : out'.items[i].id = r.id
       /\ (RunSearch /\ flight.h[1].store = "sled" /\ ~flight.arg[1].prompt.blank) =>
            (Cardinality(Passing) <= Allowed(flight.arg[1].limit) =>
                \A r \in Passing : \E i \in 1..Len(out'.rows) : out'.rows[i].id = r.id)]_vars

\* C38: set_embedding_backend is all-or-nothing: when it returns an error
\* (unknown backend id, embedder that cannot be initialised, config file
\* that cannot be written) the configuration in memory and the service in
\* the cell are unchanged; when it succeeds the configuration in memory,
\* the config file and the service in the cell all name the new backend
C38_SetBackendIsAllOrNothing ==
    [][\A id \in BackendIds, o \in Overrides, written \in BOOLEAN :
        set_embedding_backend_payload(id, o, written) =>
            IF Refused(id, o) \/ ~written
            THEN active' = active /\ CellService' = CellService
            ELSE LET backend == apply_model_override(with_default_model(id)[1], o)
                 IN  /\ active' = backend
                     /\ config' = backend
                     /\ CellService' = Service(backend, store[Desktop])]_vars

\* C35: start() calls that overlap while no owner is reachable (from the
\* health loop, the Resume handler, a start_service request, try_run)
\* spawn at most one mcp_service between them: whenever two callers are
\* both past their spawn, waiting to verify, at most one process that a
\* start() call spawned exists
C35_ConcurrentStartsSpawnAtMostOne ==
    \A c, d \in Callers :
        (c # d /\ spc[c] = "settle" /\ spc[d] = "settle") =>
            Cardinality({s \in Svc : pc[s] # "off" /\ spawnedBy[s] # "none"}) <= 1

\* C36: once every running mark_service_running, mark_service_stopped and
\* Suspend handler has returned, each having written the file, the state
\* the file holds is the desired state in memory
C36_FileEqualsMemoryOnceReturned ==
    (\A t \in Threads : saving[t] = "none") => load_state(stateFile) = desired

\* C37: recovery survives sleep: while the desired state is Running, a
\* crash of the owner is eventually followed by a start() call of the
\* health loop or the Resume handler (or the owner is reachable again),
\* also when a Suspend and a Resume event arrive before the next poll
C37_CrashIsFollowedByStart ==
    (desired = "Running" /\ ~OwnerUp) ~>
        (OwnerUp \/ spc[Mon] # "idle" \/ spc[Res] # "idle")

\* C39: every persisted record has a non-empty project and a non-empty
\* ide: what ingest validation lets through is never stored with a project
\* or ide that sanitization to a single line has left empty
C39_StoredProjectAndIdeAreNonEmpty ==
    \A r \in contexts : r.project # <<>> /\ r.ide # <<>>

\* C40: a record is found again under the project string it was ingested
\* with: right after a successful ingest with project P, a history of P
\* and a search with the project filter P, both with a limit that covers
\* the store, return the record
C40_FoundUnderItsProject ==
    (out.op = "ingest" /\ out.err = "Ok" /\ out.storeWith = Some("sled")) =>
        LET P == out.arg[1].project
            id == out.summary[1].id
            listed == history(out.h[1], Some(P), Some(50)).items
            found == search(out.h[1],
                            SearchRequest(Text(3, FALSE, <<0>>),
                                          [NoFilters EXCEPT !.project = Some(P)], 32)).rows
        IN  /\ \E i \in 1..Len(listed) : listed[i].id = id
            /\ \E i \in 1..Len(found) : found[i].id = id

====
